---- MODULE Spec2Model ----
(***************************************************************************)
(* Multi-source fusion and forecast engine of the air-quality backend:     *)
(*   Backend/app/services/data_fusion_service.py   (DataFusionService)     *)
(*   Backend/app/services/enhanced_prediction_service.py                   *)
(*   Backend/app/services/cache_service.py         (cached)                *)
(*                                                                         *)
(* Numbers.  Python floats are modelled by exact rationals [n, d] wherever *)
(* the code only adds, multiplies, divides and compares; math.exp and      *)
(* math.sqrt are evaluated in fixed point.  round(x, 2) is round-half-even *)
(* on the value and yields "cents" (1/100).                                *)
(* Positions: a measurement's (lat, lon) is its signed offset in km from   *)
(* the target along the target's meridian, where the haversine distance of *)
(* _calculate_distance is the absolute difference of the offsets.          *)
(*                                                                         *)
(* Specifications.                                                         *)
(*   Spec            _fuse_pollutant_data on collected data of a pollutant *)
(*   SpecEntryPoints get_fused_air_quality_data and get_enhanced_prediction *)
(*                   for every end of the provider calls and every step in *)
(*                   which an exception is raised                          *)
(*   SpecQuality     two answers for one place, the second after a         *)
(*                   satellite result replaced a ground measurement        *)
(*   SpecAssessor    _assess_data_quality on any measurement list          *)
(*   SpecDayForecast a 24-hour NO2 forecast from a base value of 25        *)
(*   SpecRoutes      the four routes of Backend/app/routes/data_fusion.py  *)
(*                   that call the service                                 *)
(*   SpecCollector   _collect_multi_source_data step by step, with the     *)
(*                   provider calls on the executor's worker threads;      *)
(*                   SpecCollectorLive adds the fairness of its threads    *)
(*   SpecPollutantList get_fused_air_quality_data for a list of           *)
(*                   pollutants, pass by pass of its loop                  *)
(*   SpecTrend       _analyze_trend on any short sequence of values        *)
(*   SpecCache       calls through the @cached wrapper of                  *)
(*                   Backend/app/services/cache_service.py                 *)
(***************************************************************************)
EXTENDS Integers, Sequences, FiniteSets, TLC

VARIABLES
    request,        \* arguments of the call: [pollutant, radius_km, ...]
    data_sources,   \* what _collect_multi_source_data returned
    noise,          \* the np.random.normal draw of the estimator, in sigmas
    fused,          \* what _fuse_pollutant_data returned (or raised)
    providers,      \* how each provider call ended: [tempo, ground, weather]
    clock,          \* datetime.utcnow(): [hour, weekday]
    fault,          \* the step of the request in which an exception is raised
    variations,     \* the np.random.normal draws of the forecast, per hour
    current_data,   \* what get_fused_air_quality_data returned
    prediction,     \* what get_enhanced_prediction returned
    baseline,       \* measurements and quality of the previous answer
    assessment,     \* a call of _assess_data_quality: its list and its result
    http,           \* a request to a route of /api/fusion and its response
    tasks,          \* the provider calls running on the collector's executor
    collector,      \* where _collect_multi_source_data stands, and its dict
    cache           \* cache_service: is_connected and the entries in Redis

vars == <<request, data_sources, noise, fused, providers, clock, fault,
          variations, current_data, prediction, baseline, assessment, http,
          tasks, collector, cache>>

----------------------------------------------------------------------------
(* Bounds of the model *)

\* most ground measurements of one pollutant in a ground-network answer
MaxGround == 2

----------------------------------------------------------------------------
(* Arithmetic *)

Abs(x) == IF x < 0 THEN -x ELSE x
Min(a, b) == IF a < b THEN a ELSE b
Max(a, b) == IF a > b THEN a ELSE b

RECURSIVE Gcd(_, _)
Gcd(a, b) == IF b = 0 THEN Abs(a) ELSE Gcd(b, a % b)

RECURSIVE Pow10(_)
Pow10(k) == IF k = 0 THEN 1 ELSE 10 * Pow10(k - 1)

\* floor(n * 10^k / d) for n >= 0, d > 0, by long division
RECURSIVE LongDiv(_, _, _)
LongDiv(n, d, k) ==
    IF k = 0 THEN n \div d
    ELSE (n \div d) * Pow10(k) + LongDiv(10 * (n % d), d, k - 1)

\* floor(sqrt(n)) by bisection on lo..hi
RECURSIVE ISqrtIn(_, _, _)
ISqrtIn(n, lo, hi) ==
    IF lo >= hi THEN lo
    ELSE LET mid == (lo + hi + 1) \div 2
         IN  IF mid * mid <= n THEN ISqrtIn(n, mid, hi)
             ELSE ISqrtIn(n, lo, mid - 1)
ISqrt(n) == ISqrtIn(n, 0, Min(n, 46340))

\* exact rationals, kept in lowest terms with a positive denominator
Rat(n, d) ==
    LET g == Gcd(n, d)
        s == IF d < 0 THEN -1 ELSE 1
    IN  [n |-> s * (n \div g), d |-> s * (d \div g)]
RInt(i) == [n |-> i, d |-> 1]
RMul(a, b) ==
    LET g1 == Gcd(a.n, b.d)
        g2 == Gcd(b.n, a.d)
    IN  IF a.n = 0 \/ b.n = 0 THEN RInt(0)
        ELSE Rat((a.n \div g1) * (b.n \div g2), (a.d \div g2) * (b.d \div g1))
RAdd(a, b) ==
    LET g == Gcd(a.d, b.d)
    IN  Rat(a.n * (b.d \div g) + b.n * (a.d \div g), (a.d \div g) * b.d)
RNeg(a) == [n |-> -a.n, d |-> a.d]
RSub(a, b) == RAdd(a, RNeg(b))
RInv(a) == Rat(a.d, a.n)
RDiv(a, b) == RMul(a, RInv(b))
RSign(a) == IF a.n > 0 THEN 1 ELSE IF a.n < 0 THEN -1 ELSE 0
RLeq(a, b) == RSign(RSub(a, b)) <= 0
RLess(a, b) == RSign(RSub(a, b)) < 0
RMin(a, b) == IF RLess(a, b) THEN a ELSE b
RMax(a, b) == IF RLess(b, a) THEN a ELSE b

\* floor(a * 10^k) of a rational a >= 0
RFloor(a, k) == LongDiv(a.n, a.d, k)

\* round(a, 2) of a rational a >= 0, in cents: ties go to the even cent
Round2(a) ==
    LET q == LongDiv(a.n, a.d, 2)
        twice == LongDiv(2 * a.n, a.d, 2) - 2 * q
        exactHalf == twice = 1 /\ Rat(2 * q + 1, 200) = a
    IN  IF twice = 0 THEN q
        ELSE IF exactHalf THEN (IF q % 2 = 0 THEN q ELSE q + 1)
        ELSE q + 1

RECURSIVE SumSeq(_)
SumSeq(s) == IF s = <<>> THEN RInt(0) ELSE RAdd(Head(s), SumSeq(Tail(s)))

RECURSIVE MaxOf(_)
MaxOf(S) ==
    IF S = {} THEN 0
    ELSE LET x == CHOOSE y \in S : TRUE IN Max(x, MaxOf(S \ {x}))

----------------------------------------------------------------------------
(* Constants of DataFusionService *)

\* self.quality_weights
quality_weights ==
    [ground_sensor |-> Rat(10, 10), tempo_satellite |-> Rat(8, 10)]

\* blend fractions of _spatial_fusion: satellite 0.3, ground 0.7
SatBlend == Rat(3, 10)
GroundBlend == Rat(7, 10)

\* fixed-point scales of math.exp and of the weights it yields
ExpScale == Pow10(4)
WeightScale == Pow10(2)

\* e^(x / ExpScale) * ExpScale, by the power series, for 0 <= x < 3 * ExpScale
RECURSIVE ExpSeries(_, _, _)
ExpSeries(x, term, k) ==
    IF term = 0 THEN 0
    ELSE term + ExpSeries(x, (term * x) \div (k * ExpScale), k + 1)

\* math.exp(-distance_km / (max_radius_km / 3.0)), in 1/WeightScale
ExpDecay(distance_km, max_radius_km) ==
    LET x == (3 * distance_km * ExpScale) \div max_radius_km
        e == ExpSeries(x, ExpScale, 1)
        inv == (ExpScale * ExpScale) \div e
    IN  (inv * WeightScale + ExpScale \div 2) \div ExpScale

\* lines 322-323 returning the full weight on and beyond the search radius
CalculateDistanceWeightFullBeyond(distance_km, max_radius_km) ==
    IF distance_km >= max_radius_km THEN RInt(1)
    ELSE Rat(ExpDecay(distance_km, max_radius_km), WeightScale)

\* line 326 with the exponent's sign dropped: exp(+distance / (radius / 3))
CalculateDistanceWeightGrowing(distance_km, max_radius_km) ==
    IF distance_km >= max_radius_km THEN RInt(0)
    ELSE Rat(WeightScale, ExpDecay(distance_km, max_radius_km))

\* _calculate_distance_weight
CalculateDistanceWeight(distance_km, max_radius_km) ==
    IF distance_km >= max_radius_km THEN RInt(0)
    ELSE Rat(ExpDecay(distance_km, max_radius_km), WeightScale)

\* _calculate_distance between two positions on the target's meridian
CalculateDistance(pos1, pos2) == Abs(pos1 - pos2)

----------------------------------------------------------------------------
(* _fuse_pollutant_data: building the measurement list *)

Absent == [status |-> "absent"]

TempoMeasurement(tempo_data) ==
    [source |-> "tempo_satellite",
     pos |-> tempo_data.data.pos,
     value |-> tempo_data.data.value,
     fresh |-> tempo_data.data.fresh,
     distance_km |-> 0,
     weight |-> quality_weights.tempo_satellite]

GroundMeasurement(m, radius_km) ==
    [source |-> "ground_sensor",
     pos |-> m.pos,
     value |-> m.value,
     fresh |-> m.fresh,
     distance_km |-> m.distance_km,
     weight |-> RMul(quality_weights.ground_sensor,
                     CalculateDistanceWeight(m.distance_km, radius_km))]

\* the test of line 207 dropped: every ground measurement is taken,
\* whatever pollutant it is tagged with
RECURSIVE GroundMeasurementsUntagged(_, _, _)
GroundMeasurementsUntagged(data, pollutant, radius_km) ==
    IF data = <<>> THEN <<>>
    ELSE <<GroundMeasurement(Head(data), radius_km)>>
         \o GroundMeasurementsUntagged(Tail(data), pollutant, radius_km)

RECURSIVE GroundMeasurements(_, _, _)
GroundMeasurements(data, pollutant, radius_km) ==
    IF data = <<>> THEN <<>>
    ELSE (IF Head(data).pollutant = pollutant
          THEN <<GroundMeasurement(Head(data), radius_km)>> ELSE <<>>)
         \o GroundMeasurements(Tail(data), pollutant, radius_km)

\* lines 185-225: the satellite measurement first, then the ground ones
CollectMeasurements(pollutant, sources, radius_km) ==
    (IF sources.tempo_satellite.status = "success"
     THEN <<TempoMeasurement(sources.tempo_satellite)>> ELSE <<>>)
    \o (IF sources.ground_sensors.status = "success"
        THEN GroundMeasurements(sources.ground_sensors.data, pollutant, radius_km)
        ELSE <<>>)

BySource(ms, src) == SelectSeq(ms, LAMBDA m : m.source = src)

RECURSIVE MapValue(_)
MapValue(ms) ==
    IF ms = <<>> THEN <<>> ELSE <<RInt(Head(ms).value)>> \o MapValue(Tail(ms))
RECURSIVE MapWeight(_)
MapWeight(ms) ==
    IF ms = <<>> THEN <<>> ELSE <<Head(ms).weight>> \o MapWeight(Tail(ms))

\* np.mean of a non-empty list
Mean(xs) == RDiv(SumSeq(xs), RInt(Len(xs)))

----------------------------------------------------------------------------
(* _spatial_fusion *)

Returned(v) == [kind |-> "ok", value |-> v]
Raised(e) == [kind |-> "raised", error |-> e]

\* lines 296-301: inverse-distance weight times the measurement's weight
FinalWeight(m) ==
    LET distance_km == CalculateDistance(0, m.pos)
        distance_weight ==
            IF distance_km * 10 < 1 THEN RInt(1)
            ELSE Rat(1, 1 + distance_km * distance_km)
    IN  RMul(m.weight, distance_weight)

RECURSIVE GroundWeights(_)
GroundWeights(ms) ==
    IF ms = <<>> THEN <<>> ELSE <<FinalWeight(Head(ms))>> \o GroundWeights(Tail(ms))
\* line 302 with the base weight in place of final_weight
RECURSIVE GroundValuesBaseWeight(_)
GroundValuesBaseWeight(ms) ==
    IF ms = <<>> THEN <<>>
    ELSE <<RMul(RInt(Head(ms).value), Head(ms).weight)>>
         \o GroundValuesBaseWeight(Tail(ms))

RECURSIVE GroundValues(_)
GroundValues(ms) ==
    IF ms = <<>> THEN <<>>
    ELSE <<RMul(RInt(Head(ms).value), FinalWeight(Head(ms)))>>
         \o GroundValues(Tail(ms))

\* the blend left unnormalized: the fractions 0.3 and 0.7 scale the result
NormalizeSkipped(fused_value, total_weight, measurements) == fused_value

\* lines 313-318: "Normalize the result"
Normalize(fused_value, total_weight, measurements) ==
    IF RSign(total_weight) > 0 THEN RDiv(fused_value, total_weight)
    ELSE Mean(MapValue(measurements))

\* lines 268-318: the path of two or more measurements
BlendSources(measurements) ==
    LET satellite_measurements == BySource(measurements, "tempo_satellite")
        ground_measurements == BySource(measurements, "ground_sensor")
        hasSat == satellite_measurements # <<>>
        hasGround == ground_measurements # <<>>
        satellite_value == Mean(MapValue(satellite_measurements))
        satellite_weight == Mean(MapWeight(satellite_measurements))
        fused1 == IF hasSat
                  THEN RMul(RMul(satellite_value, satellite_weight), SatBlend)
                  ELSE RInt(0)
        total1 == IF hasSat THEN RMul(satellite_weight, SatBlend) ELSE RInt(0)
        ground_total_weight == SumSeq(GroundWeights(ground_measurements))
        ground_weighted_avg ==
            RDiv(SumSeq(GroundValues(ground_measurements)), ground_total_weight)
        capped == RMin(ground_total_weight, RInt(1))
        fused2 == IF hasGround
                  THEN RAdd(fused1, RMul(RMul(ground_weighted_avg, capped), GroundBlend))
                  ELSE fused1
        total2 == IF hasGround THEN RAdd(total1, RMul(capped, GroundBlend))
                  ELSE total1
    IN  \* line 306: sum(ground_values) / sum(ground_weights) on Python floats
        IF hasGround /\ RSign(ground_total_weight) = 0
        THEN Raised("ZeroDivisionError")
        ELSE Returned(Normalize(fused2, total2, measurements))

\* the single-measurement shortcut of line 265 dropped
SpatialFusionAlwaysBlend(measurements) == BlendSources(measurements)

SpatialFusion(measurements) ==
    IF Len(measurements) = 1 THEN Returned(RInt(measurements[1].value))
    ELSE BlendSources(measurements)

----------------------------------------------------------------------------
(* _calculate_uncertainty, _calculate_confidence_intervals *)

\* max(distances) over all pairs of measurements, 0 when there is no pair
MaxPairwiseDistance(measurements) ==
    MaxOf({CalculateDistance(measurements[i].pos, measurements[j].pos) :
              i \in 1..Len(measurements), j \in 1..Len(measurements)})

SourceTypes(measurements) ==
    {measurements[i].source : i \in 1..Len(measurements)}

\* a weight in 1/WeightScale (every weight is a whole number of them)
WeightUnits(w) == (w.n * WeightScale) \div w.d

RECURSIVE SumWeights(_)
SumWeights(ms) ==
    IF ms = <<>> THEN 0 ELSE WeightUnits(Head(ms).weight) + SumWeights(Tail(ms))
RECURSIVE SumWeightedValues(_)
SumWeightedValues(ms) ==
    IF ms = <<>> THEN 0
    ELSE WeightUnits(Head(ms).weight) * Head(ms).value + SumWeightedValues(Tail(ms))
RECURSIVE SumWeightedSquares(_)
SumWeightedSquares(ms) ==
    IF ms = <<>> THEN 0
    ELSE WeightUnits(Head(ms).weight) * Head(ms).value * Head(ms).value
         + SumWeightedSquares(Tail(ms))

\* lines 354-355: sum(w * (v - mean)^2) / sum(w) with mean = sum(v * w) / sum(w),
\* which is (sum(w) * sum(w * v^2) - sum(w * v)^2) / sum(w)^2, in 1/10^6
WeightedVariance(measurements) ==
    LET sw == SumWeights(measurements)
        swv == SumWeightedValues(measurements)
    IN  LongDiv(sw * SumWeightedSquares(measurements) - swv * swv, sw * sw, 6)

\* values and uncertainties after the fusion are held in fixed point:
\* a value in 1/10^4 and an uncertainty in 1/10^5, so that 0.1 * value and
\* 0.5 * value are whole numbers of uncertainty units
ValueUnits(a) == RFloor(a, 4)

\* the cap of line 385 dropped
CapUncertaintySkipped(total_uncertainty, fused_value) == total_uncertainty

\* line 385: "Cap uncertainty at reasonable bounds";
\* min(max(total, 0.1 * fused), 0.5 * fused)
CapUncertainty(total_uncertainty, fused_value) ==
    Min(Max(total_uncertainty, fused_value), 5 * fused_value)

\* fused_value in 1/10^4; the result in 1/10^5
CalculateUncertainty(measurements, fused_value) ==
    IF Len(measurements) <= 1 THEN Returned(3 * fused_value)
    ELSE
    LET measurement_uncertainty == ISqrt(WeightedVariance(measurements))
        source_factor ==
            IF Cardinality(SourceTypes(measurements)) > 1 THEN 8 ELSE 12
        spatial_factor ==
            IF Len(measurements) > 2
            THEN 100 + MaxPairwiseDistance(measurements)
            ELSE 110
        \* 1/10^3 * 1/10 * 1/100, brought to 1/10^5
        total_uncertainty ==
            (measurement_uncertainty * source_factor * spatial_factor) \div 10
    IN  IF SumWeights(measurements) = 0 THEN Raised("ZeroDivisionError")
        ELSE Returned(CapUncertainty(total_uncertainty, fused_value))

\* round(x, 2) of x >= 0 given in 1/10^5: cents, ties to the even cent
Round2Units(x) ==
    LET q == x \div 1000
        r == x % 1000
    IN  IF r > 500 \/ (r = 500 /\ q % 2 = 1) THEN q + 1 ELSE q

\* the one-sigma and two-sigma bands exchanged
ConfidenceIntervalsSwapped(value, uncertainty) ==
    [lower68 |-> Round2Units(Max(0, 10 * value - 2 * uncertainty)),
     upper68 |-> Round2Units(10 * value + 2 * uncertainty),
     lower95 |-> Round2Units(Max(0, 10 * value - uncertainty)),
     upper95 |-> Round2Units(10 * value + uncertainty)]

\* value in 1/10^4, uncertainty in 1/10^5; bounds in cents
CalculateConfidenceIntervals(value, uncertainty) ==
    [lower68 |-> Round2Units(Max(0, 10 * value - uncertainty)),
     upper68 |-> Round2Units(10 * value + uncertainty),
     lower95 |-> Round2Units(Max(0, 10 * value - 2 * uncertainty)),
     upper95 |-> Round2Units(10 * value + 2 * uncertainty)]

----------------------------------------------------------------------------
(* _assess_data_quality: contributions and score in 1/100 *)

\* lines 430-432 dropped: a single measurement adds nothing
CountScoreSingleUnscored(n) == IF n >= 3 THEN 30 ELSE IF n = 2 THEN 20 ELSE 0

CountScore(n) == IF n >= 3 THEN 30 ELSE IF n = 2 THEN 20 ELSE 10

\* the mixed case scored as satellite data alone
DiversityScoreSatelliteOnly(types) ==
    IF "tempo_satellite" \in types THEN 15
    ELSE IF "ground_sensor" \in types THEN 20
    ELSE 0

DiversityScore(types) ==
    IF "tempo_satellite" \in types /\ "ground_sensor" \in types THEN 30
    ELSE IF "ground_sensor" \in types THEN 20
    ELSE IF "tempo_satellite" \in types THEN 15
    ELSE 0

RecentMeasurements(measurements) ==
    Cardinality({i \in 1..Len(measurements) : measurements[i].fresh})

\* line 459 without its min(0.2, .)
FreshnessScoreUncapped(recent) == recent * 10

FreshnessScore(recent) == IF recent > 0 THEN Min(20, recent * 10) ELSE 0

SpatialScore(measurements) ==
    IF Len(measurements) > 1
    THEN LET max_distance == MaxPairwiseDistance(measurements)
         IN  IF max_distance > 10 THEN 20
             ELSE IF max_distance > 5 THEN 10 ELSE 0
    ELSE 0

\* The float sums 0.3+0.3+0.1+0.1, 0.3+0.2+0.2+0.1 and 0.2+0.3+0.2+0.1 are
\* 0.7999999999999999 in binary floating point: below the 0.8 threshold,
\* although round(., 2) of them is 0.8.  Every other sum the function can
\* form compares with the thresholds as its decimal value does.
FloatSumShort(c, d, f, s) ==
    <<c, d, f, s>> \in {<<30, 30, 10, 10>>, <<30, 20, 20, 10>>, <<20, 30, 20, 10>>}

QualityLevel(c, d, f, s) ==
    LET quality_score == c + d + f + s
    IN  IF quality_score >= 80 /\ ~FloatSumShort(c, d, f, s) THEN "excellent"
        ELSE IF quality_score >= 60 THEN "good"
        ELSE IF quality_score >= 40 THEN "fair"
        ELSE IF quality_score >= 20 THEN "poor"
        ELSE "very_poor"

AssessDataQuality(measurements) ==
    IF measurements = <<>>
    THEN [score |-> 0, level |-> "no_data", measurement_count |-> 0,
          source_diversity |-> 0]
    ELSE
    LET c == CountScore(Len(measurements))
        d == DiversityScore(SourceTypes(measurements))
        f == FreshnessScore(RecentMeasurements(measurements))
        s == SpatialScore(measurements)
    IN  [score |-> c + d + f + s,
         level |-> QualityLevel(c, d, f, s),
         measurement_count |-> Len(measurements),
         source_diversity |-> Cardinality(SourceTypes(measurements))]

DetermineFusionMethod(measurements) ==
    LET types == SourceTypes(measurements)
    IN  IF "tempo_satellite" \in types /\ "ground_sensor" \in types
        THEN "satellite_ground_spatial_fusion"
        ELSE IF "ground_sensor" \in types
        THEN (IF Len(BySource(measurements, "ground_sensor")) > 1
              THEN "multi_sensor_interpolation" ELSE "single_ground_sensor")
        ELSE IF "tempo_satellite" \in types THEN "satellite_only"
        ELSE "estimation"

----------------------------------------------------------------------------
(* _generate_estimated_value *)

\* base_values, and its default for an unlisted pollutant
BaseValue(pollutant) ==
    CASE pollutant = "NO2" -> RInt(25)
      [] pollutant = "O3" -> RInt(60)
      [] pollutant = "PM2.5" -> RInt(15)
      [] pollutant = "PM10" -> RInt(25)
      [] pollutant = "HCHO" -> RInt(12)
      [] pollutant = "SO2" -> RInt(8)
      [] pollutant = "CO" -> Rat(12, 10)
      [] OTHER -> RInt(20)

\* lines 597-608: wind and boundary-layer adjustment of the baseline
WeatherAdjusted(base_value, weather_data) ==
    IF weather_data.status = "success"
    THEN LET wind_factor ==
                 RSub(RInt(1), RMin(Rat(3, 10), Rat(weather_data.data.wind_speed, 20)))
             pbl_factor ==
                 RAdd(RInt(1),
                      RMax(Rat(-2, 10),
                           RMin(Rat(2, 10),
                                Rat(800 - weather_data.data.pbl_height, 1000))))
         IN  RMul(base_value, RMul(wind_factor, pbl_factor))
    ELSE base_value

\* line 612 without its max(0, .)
EstimatedValueUnclamped(base_value, z) ==
    RAdd(base_value, RMul(RInt(z), RMul(base_value, Rat(15, 100))))

\* lines 611-612; z is the draw of np.random.normal(0, base_value * 0.15),
\* in sigmas
EstimatedValue(base_value, z) ==
    LET variation == RMul(RInt(z), RMul(base_value, Rat(15, 100)))
    IN  RMax(RInt(0), RAdd(base_value, variation))

GenerateEstimatedValue(pollutant, sources, z) ==
    LET base_value == WeatherAdjusted(BaseValue(pollutant), sources.weather_context)
        estimated_value == EstimatedValue(base_value, z)
    IN  [status |-> "estimated",
         pollutant |-> pollutant,
         fused_value |-> Round2(estimated_value),
         confidence_intervals |->
             [lower68 |-> Round2(RMul(estimated_value, Rat(7, 10))),
              upper68 |-> Round2(RMul(estimated_value, Rat(13, 10))),
              lower95 |-> Round2(RMul(estimated_value, Rat(5, 10))),
              upper95 |-> Round2(RMul(estimated_value, Rat(15, 10)))],
         uncertainty |-> Round2(RMul(estimated_value, Rat(4, 10))),
         data_quality |-> [score |-> 20, level |-> "estimated",
                           measurement_count |-> 0, source_diversity |-> 0],
         fusion_method |-> "weather_contextual_estimation",
         contributing_sources |->
             [total_measurements |-> 0, satellite_data |-> 0, ground_sensors |-> 0],
         exact_value |-> estimated_value,
         raw_value |-> ValueUnits(estimated_value),
         raw_uncertainty |-> 4 * ValueUnits(estimated_value)]

----------------------------------------------------------------------------
(* _fuse_pollutant_data *)

\* lines 243-260: the entry returned for a non-empty measurement list
FusedEntry(pollutant, measurements, exact, fused_value, uncertainty) ==
    [status |-> "success",
     pollutant |-> pollutant,
     fused_value |-> Round2(exact),
     confidence_intervals |-> CalculateConfidenceIntervals(fused_value, uncertainty),
     uncertainty |-> Round2Units(uncertainty),
     data_quality |-> AssessDataQuality(measurements),
     fusion_method |-> DetermineFusionMethod(measurements),
     contributing_sources |->
         [total_measurements |-> Len(measurements),
          satellite_data |-> Len(BySource(measurements, "tempo_satellite")),
          ground_sensors |-> Len(BySource(measurements, "ground_sensor"))],
     exact_value |-> exact,
     raw_value |-> fused_value,
     raw_uncertainty |-> uncertainty]

\* an exception leaving _fuse_pollutant_data
FuseRaised(e) == [status |-> "raised", error |-> e]

FusePollutantData(pollutant, sources, radius_km, z) ==
    LET measurements == CollectMeasurements(pollutant, sources, radius_km)
        fusion == SpatialFusion(measurements)
        fused_value == ValueUnits(fusion.value)
        uncertainty == CalculateUncertainty(measurements, fused_value)
    IN  IF measurements = <<>> THEN GenerateEstimatedValue(pollutant, sources, z)
        ELSE IF fusion.kind = "raised" THEN FuseRaised(fusion.error)
        ELSE IF uncertainty.kind = "raised" THEN FuseRaised(uncertainty.error)
        ELSE FusedEntry(pollutant, measurements, fusion.value, fused_value,
                        uncertainty.value)

----------------------------------------------------------------------------
(* Inputs *)

\* concentrations reported by providers
GroundValueSet == {40, 50}
TempoValueSet == {0, 30}
\* station offsets from the target, km; the provider reports distance_km
\* as the distance of the same coordinates
PositionSet == {0, 2, 7}
RadiusSet == {5, 25}
WindSpeedSet == {0, 4, 10}
PblHeightSet == {500, 800, 1200}
\* draws of the estimator's normal variate, in sigmas
NoiseDraws == {-7, -1, 0, 2}

GroundEntries(tag) ==
    [pollutant : {tag}, value : GroundValueSet, pos : PositionSet,
     fresh : BOOLEAN, distance_km : PositionSet]

ConsistentEntries(tag) ==
    {e \in GroundEntries(tag) : e.distance_km = CalculateDistance(0, e.pos)}

RECURSIVE SeqsUpTo(_, _)
SeqsUpTo(S, n) ==
    IF n = 0 THEN {<<>>}
    ELSE LET shorter == SeqsUpTo(S, n - 1)
         IN  shorter \cup {Append(q, e) : q \in shorter, e \in S}

Failed == [status |-> "error"]

TempoResults ==
    {Absent, Failed}
    \cup {[status |-> "success", data |-> [value |-> v, pos |-> 0, fresh |-> f]] :
             v \in TempoValueSet, f \in BOOLEAN}

GroundResults(tag) ==
    {Absent, Failed}
    \cup {[status |-> "success", data |-> d] :
             d \in SeqsUpTo(ConsistentEntries(tag), MaxGround)}

WeatherResults ==
    {Absent, Failed}
    \cup {[status |-> "success", data |-> [wind_speed |-> w, pbl_height |-> h]] :
             w \in WindSpeedSet, h \in PblHeightSet}

\* requests whose pollutant has measurements to fuse
MeasuredInputs ==
    {<<[pollutant |-> "NO2", radius_km |-> r],
       [tempo_satellite |-> t, ground_sensors |-> g, weather_context |-> Absent]>> :
        r \in RadiusSet, t \in TempoResults, g \in GroundResults("NO2")}

\* requests whose pollutant has none: the ground network answers for
\* another pollutant only
UnmeasuredInputs ==
    {<<[pollutant |-> p, radius_km |-> 25],
       [tempo_satellite |-> t, ground_sensors |-> g, weather_context |-> w]>> :
        p \in {"NO2", "PM2.5", "CO", "NH3"},
        t \in {Absent, Failed},
        g \in {Absent,
               [status |-> "success",
                data |-> <<[pollutant |-> "O3", value |-> 50, pos |-> 2,
                            fresh |-> TRUE, distance_km |-> 2]>>]},
        w \in WeatherResults}

Pending == [status |-> "pending"]
NoBaseline == [status |-> "none"]
NotCalled == [status |-> "not_called"]

----------------------------------------------------------------------------
(* The fusion of one pollutant *)

\* the provider answers that a collected data_sources dict holds
ProvidersOf(sources) ==
    [tempo |-> sources.tempo_satellite, ground |-> sources.ground_sensors,
     weather |-> sources.weather_context]

\* no entry point has been called
EntryPointsIdle ==
    /\ clock = [hour |-> 0, weekday |-> 0]
    /\ fault = "none"
    /\ variations = <<>>
    /\ current_data = Pending
    /\ prediction = Pending

\* the assessor, the routes, the step-wise collector and the cache are not
\* in use
OthersIdle ==
    /\ assessment = NotCalled
    /\ http = NotCalled
    /\ tasks = NotCalled
    /\ collector = NotCalled
    /\ cache = NotCalled

Init ==
    /\ \E in \in MeasuredInputs \cup UnmeasuredInputs :
          /\ request = in[1]
          /\ data_sources = in[2]
    /\ providers = ProvidersOf(data_sources)
    /\ noise = 0
    /\ fused = Pending
    /\ EntryPointsIdle
    /\ baseline = NoBaseline
    /\ OthersIdle

Measurements ==
    CollectMeasurements(request.pollutant, data_sources, request.radius_km)

\* get_fused_air_quality_data, lines 76-81: one pollutant is fused
FusePollutant ==
    /\ fused = Pending
    /\ \E z \in (IF Measurements = <<>> THEN NoiseDraws ELSE {0}) :
          /\ noise' = z
          /\ fused' = FusePollutantData(request.pollutant, data_sources,
                                        request.radius_km, z)
    /\ UNCHANGED <<request, data_sources, providers, clock, fault, variations,
                   current_data, prediction, baseline, assessment, http,
                   tasks, collector, cache>>

Next == FusePollutant

Spec == Init /\ [][Next]_vars

----------------------------------------------------------------------------
(* Properties of the fusion of one pollutant *)

Done == fused # Pending
Fused == Done /\ fused.status = "success"
Estimated == Done /\ fused.status = "estimated"

GroundOf(ms) == BySource(ms, "ground_sensor")
SatelliteOf(ms) == BySource(ms, "tempo_satellite")

\* sum(v * w) / sum(w) over the ground measurements, w the effective weight
GroundWeightedMean(ms) ==
    RDiv(SumSeq(GroundValues(GroundOf(ms))), SumSeq(GroundWeights(GroundOf(ms))))

\* total effective weight of a measurement list
TotalEffectiveWeight(ms) ==
    RAdd(SumSeq(MapWeight(SatelliteOf(ms))), SumSeq(GroundWeights(GroundOf(ms))))

\* Scenario B: satellite 30, one ground measurement 50 at 2 km, radius 25 km
ScenarioB ==
    /\ request.radius_km = 25
    /\ data_sources.tempo_satellite.status = "success"
    /\ data_sources.tempo_satellite.data.value = 30
    /\ data_sources.ground_sensors.status = "success"
    /\ Len(data_sources.ground_sensors.data) = 1
    /\ data_sources.ground_sensors.data[1].value = 50
    /\ data_sources.ground_sensors.data[1].pos = 2
    /\ data_sources.ground_sensors.data[1].distance_km = 2

\* C1: in Scenario B the fused value lies strictly between 30 and 50 and is
\* closer to 50 than to 30, that is, above 40.
C1_GroundDominates ==
    (ScenarioB /\ Done) =>
        /\ Fused
        /\ RLess(RInt(30), fused.exact_value)
        /\ RLess(fused.exact_value, RInt(50))
        /\ RLess(RInt(40), fused.exact_value)

\* C2: two or more measurements whose total effective weight is zero are
\* fused to the unweighted mean of their values, without failing.
C2_ZeroWeightFallsBackToMean ==
    (Done /\ Len(Measurements) >= 2 /\ RSign(TotalEffectiveWeight(Measurements)) = 0) =>
        /\ Fused
        /\ fused.exact_value = Mean(MapValue(Measurements))

\* C3: two or more measurements of one source type with positive total
\* weight are fused to that branch's own weighted mean: the satellite mean
\* for satellite-only lists, the effective-weight mean for ground-only ones.
C3_SingleBranchRenormalized ==
    (Done /\ Len(Measurements) >= 2
          /\ Cardinality(SourceTypes(Measurements)) = 1
          /\ RSign(TotalEffectiveWeight(Measurements)) > 0) =>
        /\ Fused
        /\ fused.exact_value =
              (IF GroundOf(Measurements) # <<>> THEN GroundWeightedMean(Measurements)
               ELSE Mean(MapValue(Measurements)))
        /\ fused.fused_value = Round2(fused.exact_value)

\* a ground-only list of two measurements with different values was fused
C3_Witness ==
    /\ Fused
    /\ Len(Measurements) = 2
    /\ SatelliteOf(Measurements) = <<>>
    /\ Measurements[1].value # Measurements[2].value
    /\ RLess(RInt(40), fused.exact_value)
    /\ RLess(fused.exact_value, RInt(50))

\* C4: a list of exactly one measurement, whatever its source, distance and
\* weight, is fused to its own value (in cents after round(., 2)) with an
\* uncertainty of 0.3 times the value.
C4_SingleMeasurement ==
    (Done /\ Len(Measurements) = 1) =>
        /\ Fused
        /\ fused.exact_value = RInt(Measurements[1].value)
        /\ fused.fused_value = 100 * Measurements[1].value
        /\ 10 * fused.raw_uncertainty = 3 * (10 * fused.raw_value)
        /\ fused.uncertainty = 30 * Measurements[1].value

\* Scenario A with the station out of range: one ground measurement of value
\* 40 and weight 0 gave 40.0 with uncertainty 12.0
C4_Witness ==
    /\ Fused
    /\ Len(Measurements) = 1
    /\ Measurements[1].source = "ground_sensor"
    /\ RSign(Measurements[1].weight) = 0
    /\ fused.fused_value = 4000
    /\ fused.uncertainty = 1200

\* C5: every returned estimate with a value v > 0 (single measurement, fusion
\* or contextual estimate) has a computed uncertainty u with
\* 0.1 * v <= u <= 0.5 * v  (v in 1/10^4, u in 1/10^5).
C5_UncertaintyBounds ==
    ((Fused \/ Estimated) /\ fused.raw_value > 0) =>
        /\ fused.raw_value <= fused.raw_uncertainty
        /\ fused.raw_uncertainty <= 5 * fused.raw_value

\* a fusion of several measurements whose spread fell below the lower cap
C5_Witness ==
    /\ Fused
    /\ Len(Measurements) >= 2
    /\ fused.raw_value > 0
    /\ fused.raw_uncertainty = fused.raw_value

\* C6: the confidence intervals of every estimate with non-negative value and
\* uncertainty are nested around the value, and both lower bounds are >= 0.
C6_IntervalsNested ==
    ((Fused \/ Estimated) /\ fused.fused_value >= 0 /\ fused.uncertainty >= 0) =>
        LET ci == fused.confidence_intervals
        IN  /\ 0 <= ci.lower95
            /\ ci.lower95 <= ci.lower68
            /\ ci.lower68 <= fused.fused_value
            /\ fused.fused_value <= ci.upper68
            /\ ci.upper68 <= ci.upper95

\* a fused estimate whose four bounds are all different from the value
C6_Witness ==
    /\ Fused
    /\ Len(Measurements) >= 2
    /\ fused.confidence_intervals.lower95 < fused.confidence_intervals.lower68
    /\ fused.confidence_intervals.lower68 < fused.fused_value
    /\ fused.fused_value < fused.confidence_intervals.upper68
    /\ fused.confidence_intervals.upper68 < fused.confidence_intervals.upper95

----------------------------------------------------------------------------
(* get_fused_air_quality_data *)

\* pollutants for which a TEMPO request is submitted
TempoPollutants == {"NO2", "O3", "HCHO", "AEROSOL"}

\* ends of a provider call other than a returned result
Exception == [status |-> "exception"]
Timeout == [status |-> "timeout"]
NotRequested == [status |-> "not_requested"]

\* the try/except of lines 151-174 dropped from the loop: the end of a call
\* that raised or timed out lands in the slot
SlotUnguarded(outcome) ==
    IF outcome.status = "not_requested" THEN Absent ELSE outcome

\* lines 150-174: a slot is assigned only when future.result(timeout=30)
\* returns; a call that raised or timed out leaves the slot's initial {}
Slot(outcome) ==
    IF outcome.status \in {"exception", "timeout", "not_requested"}
    THEN Absent ELSE outcome

\* the data_sources dict before any result is collected
NothingCollected ==
    [tempo_satellite |-> Absent, ground_sensors |-> Absent,
     weather_context |-> Absent,
     summary |-> [sources_attempted |-> 0, sources_successful |-> 0,
                  data_points_collected |-> 0]]

\* lines 126-148: the futures of a request of one pollutant, as submitted
Futures(pollutant) ==
    IF pollutant \in TempoPollutants THEN <<"tempo", "ground", "weather">>
    ELSE <<"ground", "weather">>

\* lines 164-172: the data points a collected result adds to the summary;
\* the ground network answers with a list, the other providers with a dict
DataPoints(future_name, result) ==
    IF result.status # "success" THEN 0
    ELSE IF future_name = "ground" THEN Len(result.data) ELSE 1

\* lines 117-121, 134, 141, 148, 164-172: the summary counters
CollectSummary(pollutant, outcomes) ==
    LET futures == Futures(pollutant)
        names == {futures[i] : i \in 1..Len(futures)}
        result(f) == Slot(outcomes[f])
    IN  [sources_attempted |-> Len(futures),
         sources_successful |->
             Cardinality({f \in names : result(f).status = "success"}),
         data_points_collected |->
             SumSeq([i \in 1..Len(futures) |->
                        RInt(DataPoints(futures[i], result(futures[i])))]).n]

\* _collect_multi_source_data for a request of one pollutant
CollectMultiSourceData(pollutant, outcomes) ==
    [tempo_satellite |->
         IF pollutant \in TempoPollutants THEN Slot(outcomes.tempo) ELSE Absent,
     ground_sensors |-> Slot(outcomes.ground),
     weather_context |-> Slot(outcomes.weather),
     summary |-> CollectSummary(pollutant, outcomes)]

\* _get_fallback_value, in cents
GetFallbackValue(pollutant) ==
    CASE pollutant = "NO2" -> 2000
      [] pollutant = "O3" -> 5000
      [] pollutant = "PM2.5" -> 1200
      [] pollutant = "PM10" -> 2000
      [] pollutant = "HCHO" -> 800
      [] pollutant = "SO2" -> 500
      [] pollutant = "CO" -> 100
      [] OTHER -> 1500

\* lines 83-89: the entry of a pollutant whose fusion raised
ErrorEntry(pollutant, e) ==
    [status |-> "error", message |-> e,
     fallback_value |-> GetFallbackValue(pollutant)]

\* _fuse_pollutant_data, or the exception raised inside it
FuseStep(pollutant, sources, radius_km, z, failure) ==
    IF failure = "fuse" THEN FuseRaised("Exception")
    ELSE FusePollutantData(pollutant, sources, radius_km, z)

\* the inner try/except of lines 76-89 dropped: what the fusion raised is
\* stored as the pollutant's entry
PollutantEntryUnguarded(pollutant, fused_data) == fused_data

\* lines 76-89: the inner try/except around one pollutant; fused_data is
\* what _fuse_pollutant_data returned or raised
PollutantEntry(pollutant, fused_data) ==
    IF fused_data.status = "raised"
    THEN ErrorEntry(pollutant, fused_data.error)
    ELSE fused_data

\* _generate_fusion_summary for one entry; overall_quality in 1/100
GenerateFusionSummary(entry) ==
    [successful_pollutants |-> IF entry.status = "success" THEN 1 ELSE 0,
     total_pollutants |-> 1,
     overall_quality |->
         IF entry.status = "success" THEN entry.data_quality.score ELSE 0]

\* _get_fusion_fallback
GetFusionFallback(pollutant) ==
    [status |-> "fallback",
     method |-> "fallback_estimation",
     pollutants |->
         [p \in {pollutant} |->
             [status |-> "fallback", pollutant |-> p,
              fused_value |-> GetFallbackValue(p),
              data_quality |-> [score |-> 10, level |-> "fallback"],
              fusion_method |-> "fallback_estimation"]]]

\* lines 64-103: the body of the outer try
FusionTry(pollutant, fused_data, failure) ==
    IF failure \in {"collect", "summary"} THEN Raised("Exception")
    ELSE LET entry == PollutantEntry(pollutant, fused_data)
             fusion_summary == GenerateFusionSummary(entry)
         IN  Returned([status |-> "success",
                       method |-> "satellite_ground_fusion",
                       pollutants |-> [p \in {pollutant} |-> entry],
                       fusion_summary |-> fusion_summary,
                       quality_score |-> fusion_summary.overall_quality])

\* the outer handler of lines 105-107 dropped: the exception leaves the call
GetFusedAirQualityDataUnguarded(pollutant, fused_data, failure) ==
    LET body == FusionTry(pollutant, fused_data, failure)
    IN  IF body.kind = "raised" THEN FuseRaised(body.error) ELSE body.value

\* get_fused_air_quality_data(lat, lon, [pollutant], radius_km), given what
\* the fusion of the pollutant comes to
GetFusedAirQualityData(pollutant, fused_data, failure) ==
    LET body == FusionTry(pollutant, fused_data, failure)
    IN  IF body.kind = "raised" THEN GetFusionFallback(pollutant)
        ELSE body.value

----------------------------------------------------------------------------
(* get_enhanced_prediction *)

\* _get_hourly_pattern: the tables, hour 0 first, in tenths
HourlyPatterns ==
    ("NO2" :> <<6, 5, 4, 4, 5, 7, 9, 12, 13, 11, 10, 10,
                10, 10, 10, 10, 11, 13, 12, 10, 9, 8, 7, 6>>)
    @@ ("O3" :> <<5, 4, 4, 4, 4, 5, 6, 7, 8, 9, 10, 11,
                  12, 13, 13, 12, 11, 10, 9, 8, 7, 6, 5, 5>>)
    @@ ("PM2.5" :> <<8, 7, 7, 7, 8, 9, 10, 11, 11, 10, 10, 10,
                     10, 10, 10, 10, 10, 11, 11, 10, 9, 9, 8, 8>>)

\* the hour of the day ignored
GetHourlyPatternFlat(pollutant, hour) == 10

GetHourlyPattern(pollutant, hour) ==
    LET pattern == IF pollutant \in DOMAIN HourlyPatterns
                   THEN HourlyPatterns[pollutant] ELSE HourlyPatterns["PM2.5"]
    IN  IF hour \in 0..23 THEN pattern[hour + 1] ELSE 10

\* _get_daily_pattern: Monday first, in tenths
WeekdayFactors ==
    ("NO2" :> <<11, 11, 11, 11, 11, 9, 8>>)
    @@ ("O3" :> <<10, 10, 10, 10, 10, 10, 10>>)
    @@ ("PM2.5" :> <<11, 11, 11, 11, 10, 9, 9>>)

GetDailyPattern(pollutant, day_of_week) ==
    LET factors == IF pollutant \in DOMAIN WeekdayFactors
                   THEN WeekdayFactors[pollutant] ELSE WeekdayFactors["PM2.5"]
    IN  factors[day_of_week + 1]

\* the day of the week kept when the hour passes midnight
FutureTimeSameDay(now, hour) ==
    [hour |-> (now.hour + hour) % 24, weekday |-> now.weekday]

\* current_time + timedelta(hours=hour)
FutureTime(now, hour) ==
    [hour |-> (now.hour + hour) % 24,
     weekday |-> (now.weekday + (now.hour + hour) \div 24) % 7]

\* _extract_prediction_features: the keys <pollutant>_current and
\* <pollutant>_uncertainty exist only for an entry of status 'success';
\* a missing key is the empty sequence
ExtractPredictionFeatures(fused_data, pollutant) ==
    LET data == fused_data.pollutants[pollutant]
    IN  IF data.status = "success"
        THEN [current |-> <<data.fused_value>>,
              uncertainty |-> <<data.uncertainty>>,
              overall_quality |-> fused_data.fusion_summary.overall_quality]
        ELSE [current |-> <<>>, uncertainty |-> <<>>,
              overall_quality |-> fused_data.fusion_summary.overall_quality]

\* features.get(key, default), the feature in cents
FeatureGet(feature, default) ==
    IF feature = <<>> THEN default ELSE Rat(feature[1], 100)

\* lines 108-135: one pass of the loop; z is the draw of
\* np.random.normal(0, predicted_value * 0.1) in sigmas
PredictHour(features, pollutant, now, hour, z) ==
    LET future_time == FutureTime(now, hour)
        base_value == FeatureGet(features.current, RInt(25))
        hour_factor == Rat(GetHourlyPattern(pollutant, future_time.hour), 10)
        day_factor == Rat(GetDailyPattern(pollutant, future_time.weekday), 10)
        pattern_value == RMul(RMul(base_value, hour_factor), day_factor)
        noise_term == RMul(Rat(z, 10), pattern_value)
        predicted_value == RMax(RInt(0), RAdd(pattern_value, noise_term))
        base_uncertainty ==
            FeatureGet(features.uncertainty, RMul(predicted_value, Rat(2, 10)))
        time_uncertainty == RMul(base_uncertainty, Rat(100 + 5 * hour, 100))
        pred == Round2(predicted_value)
        unc == Round2(time_uncertainty)
    IN  [time |-> future_time,
         value |-> pred,
         uncertainty |-> unc,
         confidence_interval |->
             [lower |-> Max(0, pred - unc), upper |-> pred + unc]]

RECURSIVE SumInts(_)
SumInts(s) == IF s = <<>> THEN 0 ELSE Head(s) + SumInts(Tail(s))

\* np.polyfit(x, predictions, 1)[0] for x = 0..n-1 as the fraction
\* num / den of the normal equations, den > 0; predictions in cents
SlopeNum(predictions) ==
    LET n == Len(predictions)
        sx == SumInts([i \in 1..n |-> i - 1])
        sy == SumInts(predictions)
        sxy == SumInts([i \in 1..n |-> (i - 1) * predictions[i]])
    IN  n * sxy - sx * sy
SlopeDen(n) ==
    LET sx == SumInts([i \in 1..n |-> i - 1])
        sxx == SumInts([i \in 1..n |-> (i - 1) * (i - 1)])
    IN  n * sxx - sx * sx

\* lines 218-221 with >= and <= in place of > and <
AnalyzeTrendInclusive(predictions) ==
    LET num == SlopeNum(predictions)
        den == SlopeDen(Len(predictions))
    IN  IF Len(predictions) < 2 THEN "stable"
        ELSE IF num >= 50 * den THEN "increasing"
        ELSE IF num <= -50 * den THEN "decreasing"
        ELSE "stable"

\* _analyze_trend; the slope is compared with 0.5 = 50 cents per hour
AnalyzeTrend(predictions) ==
    LET num == SlopeNum(predictions)
        den == SlopeDen(Len(predictions))
    IN  IF Len(predictions) < 2 THEN "stable"
        ELSE IF num > 50 * den THEN "increasing"
        ELSE IF num < -50 * den THEN "decreasing"
        ELSE "stable"

\* _generate_ml_prediction; zs holds the draw of each hour.  With no hour
\* to forecast, max(predictions) of line 156 raises ValueError.
GenerateMlPrediction(features, pollutant, forecast_hours, now, zs) ==
    IF forecast_hours < 1 THEN Raised("ValueError")
    ELSE Returned(
           [status |-> "success",
            method |-> "enhanced_satellite_ground_fusion",
            pollutant |-> pollutant,
            forecast_hours |-> forecast_hours,
            predictions |->
                [hour \in 1..forecast_hours |->
                    PredictHour(features, pollutant, now, hour, zs[hour])],
            summary |->
                [trend |->
                    AnalyzeTrend(
                        [hour \in 1..forecast_hours |->
                            PredictHour(features, pollutant, now, hour,
                                        zs[hour]).value])]])

\* base values of _get_fallback_prediction
FallbackBaseValue(pollutant) ==
    CASE pollutant = "NO2" -> 25
      [] pollutant = "O3" -> 60
      [] pollutant = "PM2.5" -> 15
      [] OTHER -> 20

\* lines 234-249: one pass of the fallback loop
FallbackHour(pollutant, now, hour) ==
    LET future_time == FutureTime(now, hour)
        predicted_value ==
            Rat(FallbackBaseValue(pollutant)
                    * GetHourlyPattern(pollutant, future_time.hour), 10)
    IN  [time |-> future_time,
         value |-> Round2(predicted_value),
         uncertainty |-> Round2(RMul(predicted_value, Rat(3, 10))),
         confidence_interval |->
             [lower |-> Round2(RMul(predicted_value, Rat(7, 10))),
              upper |-> Round2(RMul(predicted_value, Rat(13, 10)))]]

\* _get_fallback_prediction
GetFallbackPrediction(pollutant, forecast_hours, now) ==
    [status |-> "fallback",
     method |-> "simple_pattern_based",
     pollutant |-> pollutant,
     forecast_hours |-> forecast_hours,
     predictions |->
         [hour \in 1..forecast_hours |-> FallbackHour(pollutant, now, hour)]]

\* lines 44-66: the body of the try; current is what the fuse call gave,
\* an exception leaving that call included
PredictionTry(current, pollutant, forecast_hours, now, zs, failure) ==
    IF current.status = "raised" THEN Raised(current.error)
    ELSE IF current.status # "success"
    THEN Returned(GetFallbackPrediction(pollutant, forecast_hours, now))
    ELSE IF failure = "predict" THEN Raised("Exception")
    ELSE
    LET features == ExtractPredictionFeatures(current, pollutant)
        prediction_result ==
            GenerateMlPrediction(features, pollutant, forecast_hours, now, zs)
    IN  IF prediction_result.kind = "raised" THEN prediction_result
        ELSE Returned(prediction_result.value
                      @@ [current_conditions |-> current.pollutants[pollutant],
                          data_fusion_quality |-> current.quality_score])

\* get_enhanced_prediction(lat, lon, pollutant, forecast_hours)
GetEnhancedPrediction(current, pollutant, forecast_hours, now, zs, failure) ==
    LET body == PredictionTry(current, pollutant, forecast_hours, now, zs, failure)
    IN  IF body.kind = "raised"
        THEN GetFallbackPrediction(pollutant, forecast_hours, now)
        ELSE body.value

----------------------------------------------------------------------------
(* The two public entry points *)

\* most hours asked of a forecast
MaxHours == 2

\* utcnow() of a request: a Monday morning before the rush-hour peak, a
\* Friday and a Sunday night whose forecast passes midnight
ClockSet ==
    {[hour |-> 7, weekday |-> 0], [hour |-> 23, weekday |-> 4],
     [hour |-> 22, weekday |-> 6]}

\* draws of the forecast's normal variate, in sigmas
ForecastDraws == {-1, 0, 1}

\* steps of a request in which an exception can be raised
FusionFaults == {"none", "collect", "fuse", "summary"}
ForecastFaults == FusionFaults \cup {"predict"}

\* a station near the target and one on the rim of the 50 km search radius
NearStation(tag) ==
    [pollutant |-> tag, value |-> 40, pos |-> 2, fresh |-> TRUE,
     distance_km |-> 2]
RimStation(tag) ==
    [pollutant |-> tag, value |-> 50, pos |-> 50, fresh |-> FALSE,
     distance_km |-> 50]

ProviderFailures == {Failed, Exception, Timeout}

TempoOutcomes(pollutant) ==
    IF pollutant \in TempoPollutants
    THEN ProviderFailures
         \cup {[status |-> "success",
                data |-> [value |-> 30, pos |-> 0, fresh |-> TRUE]]}
    ELSE {NotRequested}

GroundOutcomes(tag) ==
    ProviderFailures
    \cup {[status |-> "success", data |-> d] :
             d \in {<<>>, <<NearStation(tag)>>, <<RimStation(tag)>>,
                    <<NearStation(tag), RimStation(tag)>>}}

WeatherOutcomes ==
    ProviderFailures
    \cup {[status |-> "success",
           data |-> [wind_speed |-> 4, pbl_height |-> 1200]]}

ProviderOutcomes(pollutant) ==
    [tempo : TempoOutcomes(pollutant), ground : GroundOutcomes(pollutant),
     weather : WeatherOutcomes]

Requests ==
    {[op |-> "fuse", pollutant |-> p, radius_km |-> 50] : p \in {"NO2", "PM2.5"}}
    \cup {[op |-> "forecast", pollutant |-> p, radius_km |-> 50,
           forecast_hours |-> n] : p \in {"NO2", "PM2.5"}, n \in 0..MaxHours}

InitEntryPoints ==
    /\ request \in Requests
    /\ providers \in ProviderOutcomes(request.pollutant)
    /\ clock \in ClockSet
    /\ fault \in (IF request.op = "fuse" THEN FusionFaults ELSE ForecastFaults)
    /\ data_sources = NothingCollected
    /\ noise = 0
    /\ fused = Pending
    /\ variations = <<>>
    /\ current_data = Pending
    /\ prediction = Pending
    /\ baseline = NoBaseline
    /\ OthersIdle

\* what the collector hands to the fusion of the request
Collected == CollectMultiSourceData(request.pollutant, providers)

\* the estimator draws its variate only when nothing was measured
EstimatorDraws ==
    IF fault \in {"none", "summary", "predict"}
       /\ CollectMeasurements(request.pollutant, Collected, request.radius_km) = <<>>
    THEN NoiseDraws ELSE {0}

\* get_fused_air_quality_data runs for the request and returns
FuseCall ==
    /\ current_data = Pending
    /\ \E z \in EstimatorDraws :
          \E fused_data \in {FuseStep(request.pollutant, Collected,
                                       request.radius_km, z, fault)} :
             /\ noise' = z
             /\ fused' = IF fault = "collect" THEN Pending ELSE fused_data
             /\ current_data' =
                    GetFusedAirQualityData(request.pollutant, fused_data, fault)
    /\ data_sources' = IF fault = "collect" THEN NothingCollected ELSE Collected

\* a call of get_fused_air_quality_data
FusedAirQuality ==
    /\ request.op = "fuse"
    /\ FuseCall
    /\ UNCHANGED <<request, providers, clock, fault, variations, prediction,
                   baseline, assessment, http, tasks, collector, cache>>

\* draws of the two hours that a day-long forecast is compared at, in sigmas
DayDraws == {-5, -4, 0, 4, 5}

\* the draws of line 125 for the hours 1..forecast_hours: every sequence
\* over ForecastDraws for a short forecast; for a longer one the draws vary
\* at the points whose hour of day is 3 or 8 and are 0 elsewhere
VariationDraws(forecast_hours, now) ==
    IF forecast_hours <= MaxHours
    THEN [1..forecast_hours -> ForecastDraws]
    ELSE {[h \in 1..forecast_hours |->
              IF FutureTime(now, h).hour = 3 THEN z3
              ELSE IF FutureTime(now, h).hour = 8 THEN z8 ELSE 0] :
          z3 \in DayDraws, z8 \in DayDraws}

\* get_enhanced_prediction runs for the request and returns, the fuse call
\* it makes included
ForecastCall ==
    /\ prediction = Pending
    /\ \E z \in EstimatorDraws :
          \E fused_data \in {FuseStep(request.pollutant, Collected,
                                       request.radius_km, z, fault)} :
          \E current \in {GetFusedAirQualityData(request.pollutant, fused_data,
                                                 fault)} :
          \E zs \in (IF current.status = "success" /\ fault # "predict"
                     THEN VariationDraws(request.forecast_hours, clock)
                     ELSE {<<>>}) :
             /\ noise' = z
             /\ fused' = IF fault = "collect" THEN Pending ELSE fused_data
             /\ current_data' = current
             /\ variations' = zs
             /\ prediction' =
                    GetEnhancedPrediction(current, request.pollutant,
                                          request.forecast_hours, clock, zs, fault)
    /\ data_sources' = IF fault = "collect" THEN NothingCollected ELSE Collected

\* a call of get_enhanced_prediction
EnhancedPrediction ==
    /\ request.op = "forecast"
    /\ ForecastCall
    /\ UNCHANGED <<request, providers, clock, fault, baseline, assessment,
                   http, tasks, collector, cache>>

NextEntryPoints == FusedAirQuality \/ EnhancedPrediction

SpecEntryPoints == InitEntryPoints /\ [][NextEntryPoints]_vars

----------------------------------------------------------------------------
(* A 24-hour NO2 forecast from a baseline of 25 *)

\* the providers of a forecast whose base value is 25: the satellite alone
\* measures 25, or nothing is measured and the default 25.0 is taken
BaselineProviders ==
    {[tempo |-> t, ground |-> Failed, weather |-> Failed] :
        t \in {Failed,
               [status |-> "success",
                data |-> [value |-> 25, pos |-> 0, fresh |-> TRUE]]}}

\* the request may arrive at any hour, on a Monday (the day after is a
\* working day too), a Friday, a Saturday or a Sunday
DayClockSet == [hour : 0..23, weekday : {0, 4, 5, 6}]

InitDayForecast ==
    /\ request = [op |-> "forecast", pollutant |-> "NO2", radius_km |-> 50,
                  forecast_hours |-> 24]
    /\ providers \in BaselineProviders
    /\ clock \in DayClockSet
    /\ fault = "none"
    /\ data_sources = NothingCollected
    /\ noise = 0
    /\ fused = Pending
    /\ variations = <<>>
    /\ current_data = Pending
    /\ prediction = Pending
    /\ baseline = NoBaseline
    /\ OthersIdle

NextDayForecast == EnhancedPrediction

SpecDayForecast == InitDayForecast /\ [][NextDayForecast]_vars

----------------------------------------------------------------------------
(* Two answers for one place, the second with a satellite result *)

\* station offsets of the comparison, km: two of them are 12 km apart
QualityPositionSet == {0, 2, 14}

QualityEntries ==
    {e \in [pollutant : {"NO2"}, value : {40}, pos : QualityPositionSet,
            fresh : BOOLEAN, distance_km : QualityPositionSet] :
        e.distance_km = CalculateDistance(0, e.pos)}

InitQuality ==
    /\ request = [pollutant |-> "NO2", radius_km |-> 25]
    /\ \E d \in SeqsUpTo(QualityEntries, MaxGround) :
          /\ Len(d) >= 2
          /\ data_sources =
                 [tempo_satellite |-> Absent,
                  ground_sensors |-> [status |-> "success", data |-> d],
                  weather_context |-> Absent]
    /\ providers = ProvidersOf(data_sources)
    /\ noise = 0
    /\ fused = Pending
    /\ EntryPointsIdle
    /\ baseline = NoBaseline
    /\ OthersIdle

\* s without its i-th element
RemoveAt(s, i) == SubSeq(s, 1, i - 1) \o SubSeq(s, i + 1, Len(s))

\* between two requests a satellite result arrives and one ground measurement
\* of the same freshness is no longer reported: a second source type at the
\* same measurement count and the same number of fresh measurements
SecondSourceAdded ==
    /\ fused # Pending
    /\ fused.status = "success"
    /\ baseline = NoBaseline
    /\ \E i \in 1..Len(data_sources.ground_sensors.data), v \in TempoValueSet :
          data_sources' =
              [data_sources EXCEPT
                  !.tempo_satellite =
                      [status |-> "success",
                       data |-> [value |-> v, pos |-> 0,
                                 fresh |-> data_sources.ground_sensors.data[i].fresh]],
                  !.ground_sensors.data = RemoveAt(@, i)]
    /\ providers' = ProvidersOf(data_sources')
    /\ baseline' = [status |-> "kept", measurements |-> Measurements,
                    data_quality |-> fused.data_quality]
    /\ fused' = Pending
    /\ UNCHANGED <<request, noise, clock, fault, variations, current_data,
                   prediction, assessment, http, tasks, collector, cache>>

NextQuality == FusePollutant \/ SecondSourceAdded

SpecQuality == InitQuality /\ [][NextQuality]_vars

----------------------------------------------------------------------------
(* Properties of the forecast *)

Forecasted == prediction # Pending
Answered == current_data # Pending
CurrentEntry == current_data.pollutants[request.pollutant]

\* hour of day and day of week of now + h
HourOfDay(h) == (clock.hour + h) % 24
DayOfWeek(h) == (clock.weekday + (clock.hour + h) \div 24) % 7

\* base * hourly pattern * daily pattern at now + h
PatternValue(base, h) ==
    RMul(base, Rat(GetHourlyPattern(request.pollutant, HourOfDay(h))
                       * GetDailyPattern(request.pollutant, DayOfWeek(h)), 100))

\* C7: in every forecast sequence returned by the forecast operation, on
\* whatever path, the uncertainty is non-decreasing in the horizon:
\* uncertainty(h2) >= uncertainty(h1) for all hours h1 < h2.
C7_UncertaintyNonDecreasing ==
    Forecasted =>
        \A h1, h2 \in DOMAIN prediction.predictions :
            h1 < h2 => prediction.predictions[h2].uncertainty
                           >= prediction.predictions[h1].uncertainty

\* C8 as stated: each forecast value is the current fused value times the
\* hourly and the daily pattern multiplier at now + h, nothing else added
\* (compared in cents, as values are returned).
C8_ValueIsPatternProduct ==
    (Forecasted /\ prediction.status = "success"
                /\ CurrentEntry.status \in {"success", "estimated"}) =>
        \A h \in DOMAIN prediction.predictions :
            prediction.predictions[h].value =
                Round2(PatternValue(Rat(CurrentEntry.fused_value, 100), h))

\* the base value the forecast starts from: the fused value of an entry of
\* status 'success', 25.0 for any other entry
ForecastBase ==
    IF CurrentEntry.status = "success" THEN Rat(CurrentEntry.fused_value, 100)
    ELSE RInt(25)

\* C8: each value of a forecast of status 'success' is
\* round(max(0, p + variation), 2), where p is the base value times the hourly
\* and daily pattern multipliers at now + h and variation is that hour's
\* normal draw of standard deviation 0.1 * p.
C8_ValueIsPatternProductPlusVariation ==
    (Forecasted /\ prediction.status = "success") =>
        \A h \in DOMAIN prediction.predictions :
            LET p == PatternValue(ForecastBase, h)
            IN  prediction.predictions[h].value =
                    Round2(RMax(RInt(0), RAdd(p, RMul(Rat(variations[h], 10), p))))

\* a two-hour forecast from a fused entry that passes midnight into the
\* weekend, with one draw above and one below zero
C8_Witness ==
    /\ Forecasted
    /\ prediction.status = "success"
    /\ CurrentEntry.status = "success"
    /\ request.forecast_hours = 2
    /\ clock = [hour |-> 23, weekday |-> 4]
    /\ variations = <<1, -1>>
    /\ DayOfWeek(1) = 5
    /\ prediction.predictions[1].value
           > Round2(PatternValue(ForecastBase, 1))
    /\ prediction.predictions[2].value
           < Round2(PatternValue(ForecastBase, 2))

----------------------------------------------------------------------------
(* Properties of the quality score *)

\* a second answer has been fused after a satellite result took the place
\* of one ground measurement
Compared ==
    /\ baseline # NoBaseline
    /\ Fused
    /\ Cardinality(SourceTypes(baseline.measurements)) = 1
    /\ Cardinality(SourceTypes(Measurements)) = 2
    /\ Len(Measurements) = Len(baseline.measurements)
    /\ RecentMeasurements(Measurements) = RecentMeasurements(baseline.measurements)

\* C9 as stated: adding a second source type at the same measurement count
\* and the same number of fresh measurements never decreases the score.
C9_SecondSourceNeverLowersScore ==
    Compared => fused.data_quality.score >= baseline.data_quality.score

\* C9: adding a second source type at the same measurement count, the same
\* number of fresh measurements and the same spatial-coverage contribution
\* never decreases the quality score.
C9_SecondSourceAtEqualCoverage ==
    (Compared /\ SpatialScore(Measurements) = SpatialScore(baseline.measurements)) =>
        fused.data_quality.score >= baseline.data_quality.score

\* the score rose when the satellite result replaced a ground measurement
\* and the widest distance between measurements stayed in its band
C9_Witness ==
    /\ Compared
    /\ SpatialScore(Measurements) = SpatialScore(baseline.measurements)
    /\ fused.data_quality.score = baseline.data_quality.score + 10

----------------------------------------------------------------------------
(* Properties of the entry points *)

\* C10: neither entry point raises to its caller. Whatever the providers do
\* (success, non-success status, exception, timeout) and wherever an
\* exception is raised inside, the fuse call returns a result of status
\* 'success' or, when the failure was outside the fusion of the pollutant,
\* 'fallback'; the forecast call returns forecast_hours points with status
\* 'success' or, when the fuse result was not 'success' or predicting
\* failed, 'fallback'.
C10_NeverRaises ==
    /\ Answered =>
          /\ current_data.status \in {"success", "fallback"}
          /\ current_data.status = "fallback" <=> fault \in {"collect", "summary"}
          /\ CurrentEntry.status \in {"success", "estimated", "error", "fallback"}
    /\ Forecasted =>
          /\ Answered
          /\ prediction.status \in {"success", "fallback"}
          /\ Len(prediction.predictions) = request.forecast_hours
          /\ prediction.status = "fallback" <=>
                 \/ current_data.status # "success"
                 \/ fault = "predict"
                 \/ request.forecast_hours = 0

\* the satellite call raised, the ground call timed out, the weather call
\* answered without success and the summary step raised: both results are
\* tagged 'fallback'
C10_Witness ==
    /\ Forecasted
    /\ providers.tempo = Exception
    /\ providers.ground = Timeout
    /\ providers.weather = Failed
    /\ fault = "summary"
    /\ current_data.status = "fallback"
    /\ prediction.status = "fallback"
    /\ Len(prediction.predictions) = MaxHours

----------------------------------------------------------------------------
(* Source collection *)

ProviderNames == {"tempo", "ground", "weather"}

\* the slot of data_sources that a provider's result is stored in
SlotOf(sources, f) ==
    CASE f = "tempo" -> sources.tempo_satellite
      [] f = "ground" -> sources.ground_sensors
      [] f = "weather" -> sources.weather_context

\* the collector of the request has returned a data_sources dict
CollectorReturned ==
    /\ Answered \/ Forecasted
    /\ fault # "collect"

\* C11: a provider call that raised or timed out leaves its slot empty and
\* is not counted as successful; the result of every other provider call is
\* in its slot, the collector returns its dict with every submitted call
\* counted as attempted, and the request is answered.
C11_FailedProviderExcluded ==
    CollectorReturned =>
        /\ \A f \in ProviderNames :
              /\ providers[f].status \in {"exception", "timeout"}
                    => SlotOf(data_sources, f) = Absent
              /\ providers[f].status \in {"success", "error"}
                    => SlotOf(data_sources, f) = providers[f]
        /\ data_sources.summary.sources_successful =
               Cardinality({f \in ProviderNames : providers[f].status = "success"})
        /\ data_sources.summary.sources_attempted =
               Cardinality({f \in ProviderNames :
                               providers[f].status # "not_requested"})
        /\ fault = "none" => current_data.status = "success"

\* the satellite call raised, the weather call timed out and the ground
\* network's two measurements were collected and fused
C11_Witness ==
    /\ CollectorReturned
    /\ providers.tempo = Exception
    /\ providers.weather = Timeout
    /\ providers.ground.status = "success"
    /\ data_sources.ground_sensors = providers.ground
    /\ data_sources.summary =
           [sources_attempted |-> 3, sources_successful |-> 1,
            data_points_collected |-> 2]
    /\ current_data.status = "success"
    /\ current_data.pollutants[request.pollutant].status = "success"

----------------------------------------------------------------------------
(* The estimate of a pollutant without measurements *)

\* no successful satellite result and no ground measurement of the pollutant
NoMeasurement ==
    /\ data_sources.tempo_satellite.status # "success"
    /\ \/ data_sources.ground_sensors.status # "success"
       \/ \A i \in 1..Len(data_sources.ground_sensors.data) :
             data_sources.ground_sensors.data[i].pollutant # request.pollutant

\* the pollutant's fixed baseline with the jitter of the draw, unclamped
JitteredBaseline(base_value) ==
    RMul(base_value, RAdd(RInt(1), Rat(15 * noise, 100)))

\* C12: without any measurement of the pollutant the fusion returns the
\* estimator's entry: status and quality level "estimated", quality score
\* 0.2, a value >= 0 that is the weather-adjusted baseline of the pollutant
\* with the drawn jitter (clamped at 0), the bare baseline with jitter when
\* the weather context is absent, and an uncertainty of 0.4 times the value.
C12_EstimatedWithoutMeasurements ==
    Done /\ NoMeasurement =>
        /\ fused.status = "estimated"
        /\ fused.data_quality.level = "estimated"
        /\ fused.data_quality.score = 20
        /\ fused.fused_value >= 0
        /\ fused.exact_value =
               RMax(RInt(0),
                    JitteredBaseline(WeatherAdjusted(BaseValue(request.pollutant),
                                                     data_sources.weather_context)))
        /\ data_sources.weather_context.status # "success"
              => fused.exact_value =
                     RMax(RInt(0), JitteredBaseline(BaseValue(request.pollutant)))
        /\ fused.fused_value = Round2(fused.exact_value)
        /\ fused.raw_uncertainty = 4 * fused.raw_value
        /\ fused.uncertainty = Round2(RMul(Rat(4, 10), fused.exact_value))

\* PM2.5 without satellite, ground or weather data and a draw of two sigmas:
\* 15 * 1.3 = 19.5, uncertainty 7.8
C12_Witness ==
    /\ Done /\ NoMeasurement
    /\ request.pollutant = "PM2.5"
    /\ data_sources.weather_context = Absent
    /\ data_sources.ground_sensors = Absent
    /\ noise = 2
    /\ fused.fused_value = 1950
    /\ fused.uncertainty = 780
    /\ fused.data_quality.level = "estimated"

----------------------------------------------------------------------------
(* Range of the fused value *)

ValuesOf(ms) == {ms[i].value : i \in 1..Len(ms)}
MinValue(ms) == CHOOSE v \in ValuesOf(ms) : \A u \in ValuesOf(ms) : v <= u
MaxValue(ms) == CHOOSE v \in ValuesOf(ms) : \A u \in ValuesOf(ms) : u <= v

\* C13: whenever the fusion returns a value for a non-empty measurement
\* list, the value lies between the smallest and the largest measurement
\* value, and it is >= 0 when every measurement value is >= 0.
C13_FusedValueWithinRange ==
    Fused /\ Measurements # <<>> =>
        /\ RLeq(RInt(MinValue(Measurements)), fused.exact_value)
        /\ RLeq(fused.exact_value, RInt(MaxValue(Measurements)))
        /\ (\A v \in ValuesOf(Measurements) : v >= 0) => fused.fused_value >= 0

\* a satellite value and ground values that differ, fused strictly between
C13_Witness ==
    /\ Fused
    /\ Len(Measurements) = 3
    /\ MinValue(Measurements) = 30
    /\ MaxValue(Measurements) = 50
    /\ RLess(RInt(30), fused.exact_value)
    /\ RLess(fused.exact_value, RInt(50))

----------------------------------------------------------------------------
(* The quality assessor on any measurement list *)

\* most measurements of a list handed to the assessor
MaxAssessed == 3

\* offsets of the measurements: at the target, 7 km and 14 km away
AssessedPositionSet == {0, 7, 14}

\* what _assess_data_quality reads of a measurement
AssessedMeasurements ==
    [source : {"tempo_satellite", "ground_sensor"}, pos : AssessedPositionSet,
     fresh : BOOLEAN]

\* no call has been made on the other entry points
InitAssessor ==
    /\ \E ms \in SeqsUpTo(AssessedMeasurements, MaxAssessed) :
          assessment = [status |-> "asked", measurements |-> ms]
    /\ request = [pollutant |-> "NO2", radius_km |-> 25]
    /\ data_sources = NothingCollected
    /\ providers = ProvidersOf(data_sources)
    /\ noise = 0
    /\ fused = Pending
    /\ EntryPointsIdle
    /\ baseline = NoBaseline
    /\ http = NotCalled
    /\ tasks = NotCalled
    /\ collector = NotCalled
    /\ cache = NotCalled

\* a call of _assess_data_quality(measurements)
AssessQuality ==
    /\ assessment.status = "asked"
    /\ assessment' =
           [status |-> "assessed", measurements |-> assessment.measurements,
            data_quality |-> AssessDataQuality(assessment.measurements)]
    /\ UNCHANGED <<request, data_sources, noise, fused, providers, clock, fault,
                   variations, current_data, prediction, baseline, http, tasks,
                   collector, cache>>

NextAssessor == AssessQuality

SpecAssessor == InitAssessor /\ [][NextAssessor]_vars

Assessed == assessment.status = "assessed"

\* C14: for every measurement list the score of the assessor, in 1/100,
\* lies between 0 and 100, that is 0 <= score <= 1.
C14_ScoreWithinUnitInterval ==
    Assessed =>
        /\ assessment.data_quality.score >= 0
        /\ assessment.data_quality.score <= 100

\* every contribution at its cap: three fresh measurements of both source
\* types, two of them 14 km apart, score 1.0
C14_Witness ==
    /\ Assessed
    /\ Len(assessment.measurements) = 3
    /\ SourceTypes(assessment.measurements) = {"tempo_satellite", "ground_sensor"}
    /\ RecentMeasurements(assessment.measurements) = 3
    /\ MaxPairwiseDistance(assessment.measurements) = 14
    /\ assessment.data_quality.score = 100
    /\ assessment.data_quality.level = "excellent"

----------------------------------------------------------------------------
(* Distance and effective weight of ground measurements *)

\* distance of a rational from an integer
RDistance(a, i) ==
    IF RLeq(RInt(i), a) THEN RSub(a, RInt(i)) ELSE RSub(RInt(i), a)

\* C15: of two ground measurements with equal value (the base weight 0.9 is
\* that of every ground measurement) the one nearer to the target has at
\* least the effective weight of the other, so that a fusion of two ground
\* measurements alone is at least as close to the nearer one's value; and a
\* ground measurement at distance_km >= radius_km has distance weight 0.
C15_CloserWeighsMore ==
    Done =>
        LET g == GroundOf(Measurements)
        IN  /\ \A i, j \in 1..Len(g) :
                  g[i].value = g[j].value /\ g[i].distance_km <= g[j].distance_km
                      => RLeq(FinalWeight(g[j]), FinalWeight(g[i]))
            /\ \A i \in 1..Len(g) :
                  g[i].distance_km >= request.radius_km
                      => /\ g[i].weight = RInt(0)
                         /\ FinalWeight(g[i]) = RInt(0)
            /\ Fused /\ Len(Measurements) = 2 /\ Len(g) = 2
                  /\ g[1].distance_km <= g[2].distance_km
                      => RLeq(RDistance(fused.exact_value, g[1].value),
                              RDistance(fused.exact_value, g[2].value))

\* two ground measurements of value 40 in a 25 km search, 2 km and 7 km
\* from the target: the nearer one weighs strictly more
C15_Witness ==
    /\ Fused
    /\ request.radius_km = 25
    /\ Len(Measurements) = 2
    /\ Len(GroundOf(Measurements)) = 2
    /\ Measurements[1].value = 40 /\ Measurements[2].value = 40
    /\ Measurements[1].distance_km = 2 /\ Measurements[2].distance_km = 7
    /\ RLess(FinalWeight(Measurements[2]), FinalWeight(Measurements[1]))
    /\ RSign(FinalWeight(Measurements[2])) > 0

\* a ground measurement on or beyond the search radius next to one inside
C15_WitnessBeyondRadius ==
    /\ Fused
    /\ request.radius_km = 5
    /\ Len(GroundOf(Measurements)) = 2
    /\ Measurements[1].distance_km = 2 /\ Measurements[2].distance_km = 7
    /\ Measurements[2].weight = RInt(0)

----------------------------------------------------------------------------
(* Rush hour against night in a day-long forecast *)

\* a 24-hour NO2 forecast of status 'success' from a base value of 25
DayForecasted ==
    /\ Forecasted
    /\ prediction.status = "success"
    /\ request.pollutant = "NO2"
    /\ request.forecast_hours = 24
    /\ ForecastBase = RInt(25)

\* the points of the forecast whose hour of day is the given one
PointsAt(hour_of_day) ==
    {h \in DOMAIN prediction.predictions :
        prediction.predictions[h].time.hour = hour_of_day}

\* C16 as stated: the value of the point at 08:00 exceeds the value of the
\* point at 03:00, whatever the random variation of the two points.
C16_RushHourExceedsNight ==
    DayForecasted =>
        \A h8 \in PointsAt(8), h3 \in PointsAt(3) :
            prediction.predictions[h8].value > prediction.predictions[h3].value

\* C16: the value of the point at 08:00 exceeds the value of the point at
\* 03:00 whenever the variation drawn for each of the two points is within
\* four standard deviations; the pattern values before the variation,
\* 25 * 1.3 * daily and 25 * 0.4 * daily, always compare so.
C16_RushHourExceedsNightWithinFourSigma ==
    DayForecasted =>
        \A h8 \in PointsAt(8), h3 \in PointsAt(3) :
            /\ RLess(PatternValue(ForecastBase, h3), PatternValue(ForecastBase, h8))
            /\ Abs(variations[h8]) <= 4 /\ Abs(variations[h3]) <= 4
                  => prediction.predictions[h8].value
                         > prediction.predictions[h3].value

\* asked on a Sunday at 05:00: 08:00 falls on the Sunday (daily 0.8) and
\* 03:00 on the Monday (1.1); with draws of -4 and +4 sigmas the values are
\* 15.6 and 15.4
C16_Witness ==
    /\ DayForecasted
    /\ clock = [hour |-> 5, weekday |-> 6]
    /\ PointsAt(8) = {3} /\ PointsAt(3) = {22}
    /\ variations[3] = -4 /\ variations[22] = 4
    /\ prediction.predictions[3].value = 1560
    /\ prediction.predictions[22].value = 1540

----------------------------------------------------------------------------
(* The routes of the data-fusion blueprint (app/routes/data_fusion.py) *)

\* request.args.get(name, type=float): the empty sequence (None) for a
\* parameter that was not sent, else the one value
Missing == <<>>

Endpoints == {"fused-data", "enhanced-prediction", "comparison",
              "quality-assessment"}

\* query parameters: latitudes, longitudes, radii and horizons inside and
\* on either side of the documented ranges
LatSet == {Missing, <<-91>>, <<40>>, <<91>>}
LonSet == {Missing, <<-181>>, <<-74>>, <<181>>}
RouteRadiusSet == {0, 50, 201}
RouteHoursSet == {0, 1, 73}

ValidPollutants == {"NO2", "O3", "PM2.5", "PM10", "HCHO", "SO2", "CO"}

\* the parameters each route reads; one it does not read is left out of
\* the query and is shown with the default of the service
RouteArgs(endpoint) ==
    [lat : LatSet, lon : LonSet, pollutant : {"NO2"},
     radius_km : IF endpoint \in {"fused-data", "comparison"}
                 THEN RouteRadiusSet ELSE {50},
     forecast_hours : IF endpoint = "enhanced-prediction"
                      THEN RouteHoursSet ELSE {1}]

\* the call a route makes on the service once its checks have passed
ServiceArgs(endpoint, args) ==
    IF endpoint = "enhanced-prediction"
    THEN [op |-> "forecast", pollutant |-> args.pollutant, radius_km |-> 50,
          forecast_hours |-> args.forecast_hours]
    ELSE [op |-> "fuse", pollutant |-> args.pollutant,
          radius_km |-> args.radius_km]

\* lines 37-42: lat or lon was not sent
CoordinateMissing(args) == args.lat = Missing \/ args.lon = Missing

\* lines 44-54, 132, 208
CoordinateOutOfRange(args) ==
    \/ ~(-90 <= args.lat[1] /\ args.lat[1] <= 90)
    \/ ~(-180 <= args.lon[1] /\ args.lon[1] <= 180)

\* /fused-data, lines 37-71: the checks that answer 400
FusedDataRejects(args) ==
    \/ CoordinateMissing(args)
    \/ CoordinateOutOfRange(args)
    \/ ~(1 <= args.radius_km /\ args.radius_km <= 200)
    \/ args.pollutant \notin ValidPollutants

\* /enhanced-prediction, lines 125-148
EnhancedPredictionRejects(args) ==
    \/ CoordinateMissing(args)
    \/ CoordinateOutOfRange(args)
    \/ args.pollutant \notin ValidPollutants
    \/ ~(1 <= args.forecast_hours /\ args.forecast_hours <= 72)

\* /comparison, lines 201-212: radius_km is read at line 198 and passed on
\* at line 218 unchecked
ComparisonRejects(args) ==
    \/ CoordinateMissing(args)
    \/ CoordinateOutOfRange(args)

\* /quality-assessment, lines 307-308: the only check
QualityAssessmentRejects(args) == CoordinateMissing(args)

\* the 400 answers: jsonify({'error': ..., 'message': ...}), 400
BadRequest ==
    [code |-> 400, body |-> [error |-> "invalid", message |-> "invalid"]]

\* the answer of a route's except clause
InternalServerError ==
    [code |-> 500, body |-> [error |-> "Internal server error"]]

\* lines 81-90 and 157-167: the service's dict with api_info added
WithApiInfo(result, endpoint) ==
    [code |-> 200, body |-> result @@ [api_info |-> [endpoint |-> endpoint]]]

\* line 274: the name self is not bound in the module-level view function,
\* so evaluating self._generate_data_recommendation raises NameError
GenerateDataRecommendationCall == Raised("NameError")

\* lines 236-275: the comparison_result dict, whose last item is the call
\* of line 274; raw_measurements is the entry's list of that name
ComparisonResult(pollutant_data, raw_measurements) ==
    LET ms == raw_measurements
        recommendation == GenerateDataRecommendationCall
    IN  IF recommendation.kind = "raised" THEN recommendation
        ELSE Returned(
               [status |-> "success",
                pollutant |-> pollutant_data.pollutant,
                fused_result |->
                    [value |-> pollutant_data.fused_value,
                     uncertainty |-> pollutant_data.uncertainty,
                     quality_score |-> pollutant_data.data_quality.score],
                satellite_data |->
                    [count |-> Len(BySource(ms, "tempo_satellite"))],
                ground_sensor_data |->
                    [count |-> Len(BySource(ms, "ground_sensor"))],
                recommendation |-> recommendation.value])

\* lines 221-286
ComparisonResponse(fused_data, pollutant, raw_measurements) ==
    IF fused_data.status # "success"
    THEN [code |-> 503, body |-> [error |-> "Data comparison failed"]]
    ELSE IF fused_data.pollutants[pollutant].status # "success"
    THEN [code |-> 404, body |-> [error |-> "Pollutant data unavailable"]]
    ELSE LET comparison_result ==
                 ComparisonResult(fused_data.pollutants[pollutant],
                                  raw_measurements)
         IN  IF comparison_result.kind = "raised" THEN InternalServerError
             ELSE [code |-> 200, body |-> comparison_result.value]

\* lines 315-355
QualityAssessmentResponse(fused_data) ==
    IF fused_data.status # "success"
    THEN [code |-> 503, body |-> [error |-> "Quality assessment failed"]]
    ELSE [code |-> 200,
          body |-> [status |-> "success",
                    overall_quality |-> fused_data.quality_score,
                    pollutant_quality |->
                        [p \in {q \in DOMAIN fused_data.pollutants :
                                   fused_data.pollutants[q].status = "success"} |->
                            fused_data.pollutants[p].data_quality],
                    data_source_assessment |-> fused_data.fusion_summary]]

\* the provider answers behind a route
RouteProviders ==
    [tempo : {Failed, [status |-> "success",
                       data |-> [value |-> 30, pos |-> 0, fresh |-> TRUE]]},
     ground : {Failed, [status |-> "success", data |-> <<NearStation("NO2")>>]},
     weather : {Failed}]

InitRoutes ==
    /\ \E e \in Endpoints :
          \E a \in RouteArgs(e) :
             http = [endpoint |-> e, args |-> a, response |-> Pending]
    /\ request = ServiceArgs(http.endpoint, http.args)
    /\ providers \in RouteProviders
    /\ clock = [hour |-> 7, weekday |-> 0]
    /\ fault \in {"none", "collect"}
    /\ data_sources = NothingCollected
    /\ noise = 0
    /\ fused = Pending
    /\ variations = <<>>
    /\ current_data = Pending
    /\ prediction = Pending
    /\ baseline = NoBaseline
    /\ assessment = NotCalled
    /\ tasks = NotCalled
    /\ collector = NotCalled
    /\ cache = NotCalled

\* GET /fused-data
FusedDataRoute ==
    /\ http.endpoint = "fused-data"
    /\ http.response = Pending
    /\ IF FusedDataRejects(http.args)
       THEN /\ http' = [http EXCEPT !.response = BadRequest]
            /\ UNCHANGED <<data_sources, noise, fused, current_data, cache>>
       ELSE /\ FuseCall
            /\ http' = [http EXCEPT
                           !.response = WithApiInfo(current_data', http.endpoint)]
    /\ UNCHANGED <<request, providers, clock, fault, variations, prediction,
                   baseline, assessment, tasks, collector, cache>>

\* GET /enhanced-prediction
EnhancedPredictionRoute ==
    /\ http.endpoint = "enhanced-prediction"
    /\ http.response = Pending
    /\ IF EnhancedPredictionRejects(http.args)
       THEN /\ http' = [http EXCEPT !.response = BadRequest]
            /\ UNCHANGED <<data_sources, noise, fused, current_data, variations,
                           prediction, cache>>
       ELSE /\ ForecastCall
            /\ http' = [http EXCEPT
                           !.response = WithApiInfo(prediction', http.endpoint)]
    /\ UNCHANGED <<request, providers, clock, fault, baseline, assessment,
                   tasks, collector, cache>>

\* GET /comparison
ComparisonRoute ==
    /\ http.endpoint = "comparison"
    /\ http.response = Pending
    /\ IF ComparisonRejects(http.args)
       THEN /\ http' = [http EXCEPT !.response = BadRequest]
            /\ UNCHANGED <<data_sources, noise, fused, current_data, cache>>
       ELSE /\ FuseCall
            /\ http' = [http EXCEPT
                           !.response =
                               ComparisonResponse(
                                   current_data', request.pollutant,
                                   CollectMeasurements(request.pollutant, Collected,
                                                       request.radius_km))]
    /\ UNCHANGED <<request, providers, clock, fault, variations, prediction,
                   baseline, assessment, tasks, collector, cache>>

\* GET /quality-assessment
QualityAssessmentRoute ==
    /\ http.endpoint = "quality-assessment"
    /\ http.response = Pending
    /\ IF QualityAssessmentRejects(http.args)
       THEN /\ http' = [http EXCEPT !.response = BadRequest]
            /\ UNCHANGED <<data_sources, noise, fused, current_data, cache>>
       ELSE /\ FuseCall
            /\ http' = [http EXCEPT
                           !.response = QualityAssessmentResponse(current_data')]
    /\ UNCHANGED <<request, providers, clock, fault, variations, prediction,
                   baseline, assessment, tasks, collector, cache>>

NextRoutes ==
    \/ FusedDataRoute
    \/ EnhancedPredictionRoute
    \/ ComparisonRoute
    \/ QualityAssessmentRoute

SpecRoutes == InitRoutes /\ [][NextRoutes]_vars

----------------------------------------------------------------------------
(* Properties of the routes *)

Responded == http # NotCalled /\ http.response # Pending

\* the service was entered by the route
ServiceCalled == current_data # Pending \/ prediction # Pending

\* a parameter that the route reads lies outside its documented range
OutOfRange ==
    \/ http.args.lat # Missing
          /\ ~(-90 <= http.args.lat[1] /\ http.args.lat[1] <= 90)
    \/ http.args.lon # Missing
          /\ ~(-180 <= http.args.lon[1] /\ http.args.lon[1] <= 180)
    \/ http.endpoint \in {"fused-data", "comparison"}
          /\ ~(1 <= http.args.radius_km /\ http.args.radius_km <= 200)
    \/ http.endpoint = "enhanced-prediction"
          /\ ~(1 <= http.args.forecast_hours /\ http.args.forecast_hours <= 72)

\* C17: each of the four routes answers a request whose latitude, longitude,
\* radius or forecast_hours is out of range with a 400 and an error body,
\* and the fusion service has not been called.
C17_OutOfRangeRejected ==
    Responded /\ OutOfRange =>
        /\ http.response.code = 400
        /\ "error" \in DOMAIN http.response.body
        /\ ~ServiceCalled

\* C18: when the fusion succeeded for the requested pollutant, the
\* comparison route answers 200 and its body has the keys satellite_data,
\* ground_sensor_data and fused_result.
C18_ComparisonAnswers ==
    (/\ Responded
     /\ http.endpoint = "comparison"
     /\ Answered
     /\ current_data.status = "success"
     /\ CurrentEntry.status = "success") =>
        /\ http.response.code = 200
        /\ {"satellite_data", "ground_sensor_data", "fused_result"}
               \subseteq DOMAIN http.response.body

\* C19: every 200 answer of the fused-data route, whether the service
\* returned its normal result or its fallback, has the keys status,
\* pollutants and fusion_summary in its body.
C19_FusedDataKeys ==
    (Responded /\ http.endpoint = "fused-data" /\ http.response.code = 200) =>
        {"status", "pollutants", "fusion_summary"}
            \subseteq DOMAIN http.response.body

----------------------------------------------------------------------------
(* _collect_multi_source_data step by step: the collector's thread and the
   provider calls on the worker threads of its executor *)

\* a provider call that never ends
NeverReturns == [status |-> "never_returns"]

\* how a provider call ends when it is left to run
TaskFates(f, pollutant) ==
    {Failed, Exception, NeverReturns}
    \cup (CASE f = "tempo" ->
                 {[status |-> "success",
                   data |-> [value |-> 30, pos |-> 0, fresh |-> TRUE]]}
            [] f = "ground" ->
                 {[status |-> "success",
                   data |-> <<NearStation(pollutant), RimStation(pollutant)>>]}
            [] f = "weather" ->
                 {[status |-> "success",
                   data |-> [wind_speed |-> 4, pbl_height |-> 1200]]})

FutureNames(pollutant) ==
    {Futures(pollutant)[i] : i \in 1..Len(Futures(pollutant))}

\* the collector is entered: data_sources of lines 113-122 is built and no
\* future has been submitted
InitCollector ==
    /\ request \in {[op |-> "collect", pollutant |-> p, radius_km |-> 50] :
                       p \in {"NO2", "PM2.5"}}
    /\ providers \in [tempo : IF request.pollutant \in TempoPollutants
                               THEN TaskFates("tempo", request.pollutant)
                               ELSE {NotRequested},
                       ground : TaskFates("ground", request.pollutant),
                       weather : TaskFates("weather", request.pollutant)]
    /\ collector = [pc |-> "submit", next |-> 1,
                    data_sources |-> NothingCollected, timed_out |-> {},
                    finished |-> <<>>]
    /\ tasks = [f \in {} |-> "running"]
    /\ data_sources = NothingCollected
    /\ noise = 0
    /\ fused = Pending
    /\ EntryPointsIdle
    /\ baseline = NoBaseline
    /\ assessment = NotCalled
    /\ http = NotCalled
    /\ cache = NotCalled

\* lines 124-148: the executor is created and every call is submitted;
\* with at most three futures and four workers each call starts at once
SubmitAll ==
    /\ collector.pc = "submit"
    /\ tasks' = [f \in FutureNames(request.pollutant) |-> "running"]
    /\ collector' =
           [collector EXCEPT
               !.pc = "collect",
               !.data_sources.summary.sources_attempted =
                   Len(Futures(request.pollutant))]
    /\ UNCHANGED <<request, data_sources, noise, fused, providers, clock, fault,
                   variations, current_data, prediction, baseline, assessment,
                   http, cache>>

\* a provider call ends on its worker thread, by returning or by raising;
\* collector.finished keeps the order in which the calls ended
TaskSettles(f) ==
    /\ f \in DOMAIN tasks
    /\ tasks[f] = "running"
    /\ providers[f] # NeverReturns
    /\ tasks' = [tasks EXCEPT ![f] = "done"]
    /\ collector' = [collector EXCEPT !.finished = Append(@, f)]
    /\ UNCHANGED <<request, data_sources, noise, fused, providers, clock, fault,
                   variations, current_data, prediction, baseline, assessment,
                   http, cache>>

\* the future that the loop of line 150 stands at
CurrentFuture == Futures(request.pollutant)[collector.next]

InLoop ==
    /\ collector.pc = "collect"
    /\ collector.next <= Len(Futures(request.pollutant))

\* lines 154-163 alone: the slot is assigned and the counters of lines
\* 165-173 are left as they were
StoreUncounted(sources, f, result) ==
    CASE f = "tempo" -> [sources EXCEPT !.tempo_satellite = result]
      [] f = "ground" -> [sources EXCEPT !.ground_sensors = result]
      [] f = "weather" -> [sources EXCEPT !.weather_context = result]

\* lines 154-172: the slot assignment and the counters for one result
Store(sources, f, result) ==
    LET slotted ==
            CASE f = "tempo" -> [sources EXCEPT !.tempo_satellite = result]
              [] f = "ground" -> [sources EXCEPT !.ground_sensors = result]
              [] f = "weather" -> [sources EXCEPT !.weather_context = result]
    IN  IF result.status = "success"
        THEN [slotted EXCEPT
                 !.summary.sources_successful = @ + 1,
                 !.summary.data_points_collected = @ + DataPoints(f, result)]
        ELSE slotted

\* lines 151-174 for a future that is done: future.result returns the
\* call's result, or raises what the call raised into the except clause
CollectResult ==
    /\ InLoop
    /\ tasks[CurrentFuture] = "done"
    /\ collector' =
           IF providers[CurrentFuture] = Exception
           THEN [collector EXCEPT !.next = @ + 1]
           ELSE [collector EXCEPT
                    !.next = @ + 1,
                    !.data_sources =
                        Store(@, CurrentFuture, providers[CurrentFuture])]
    /\ UNCHANGED <<request, data_sources, noise, fused, providers, clock, fault,
                   variations, current_data, prediction, baseline, assessment,
                   http, tasks, cache>>

\* line 152 for a future still running after 30 s: future.result raises
\* TimeoutError into the except clause; the call itself goes on running
ResultTimesOut ==
    /\ InLoop
    /\ tasks[CurrentFuture] = "running"
    /\ collector' = [collector EXCEPT !.next = @ + 1,
                                      !.timed_out = @ \cup {CurrentFuture}]
    /\ UNCHANGED <<request, data_sources, noise, fused, providers, clock, fault,
                   variations, current_data, prediction, baseline, assessment,
                   http, tasks, cache>>

\* lines 124 and 176: the loop is over and the with block is left:
\* ThreadPoolExecutor.__exit__ calls shutdown(wait=True), which joins the
\* worker threads, so it returns only when every submitted call has
\* ended; then data_sources is returned
ExecutorShutdown ==
    /\ collector.pc = "collect"
    /\ collector.next > Len(Futures(request.pollutant))
    /\ \A f \in DOMAIN tasks : tasks[f] = "done"
    /\ collector' = [collector EXCEPT !.pc = "returned"]
    /\ data_sources' = collector.data_sources
    /\ UNCHANGED <<request, noise, fused, providers, clock, fault, variations,
                   current_data, prediction, baseline, assessment, http, tasks, cache>>

NextCollector ==
    \/ SubmitAll
    \/ \E f \in {"tempo", "ground", "weather"} : TaskSettles(f)
    \/ CollectResult
    \/ ResultTimesOut
    \/ ExecutorShutdown

SpecCollector == InitCollector /\ [][NextCollector]_vars

\* The collector's thread keeps running, 30 s do pass, and a call that is
\* to end does end.
SpecCollectorLive ==
    /\ SpecCollector
    /\ WF_vars(SubmitAll)
    /\ WF_vars(CollectResult)
    /\ WF_vars(ResultTimesOut)
    /\ WF_vars(ExecutorShutdown)
    /\ \A f \in {"tempo", "ground", "weather"} : WF_vars(TaskSettles(f))

----------------------------------------------------------------------------
(* Termination of the collection *)

\* every submitted call has ended or has run past the 30 s of its wait
AllSettledOrTimedOut ==
    /\ collector # NotCalled
    /\ collector.pc # "submit"
    /\ \A f \in DOMAIN tasks : tasks[f] = "done" \/ f \in collector.timed_out

CollectorDone == collector # NotCalled /\ collector.pc = "returned"

\* C20: once every provider call has ended or exceeded its timeout, the
\* collection eventually returns; a call that never returns does not keep
\* the collector from returning.
C20_CollectionReturns == AllSettledOrTimedOut ~> CollectorDone

----------------------------------------------------------------------------
(* The forecast from an estimated entry *)

\* C21: when the fuse call succeeded and the current entry of the pollutant
\* is the estimator's (status 'estimated'), every forecast point is built
\* from that entry: its value from the entry's fused_value as base value
\* (times the patterns, plus the hour's variation) and its uncertainty from
\* the entry's uncertainty times (1 + 0.05 h).
C21_ForecastFromEstimatedEntry ==
    (/\ Forecasted
     /\ prediction.status = "success"
     /\ current_data.status = "success"
     /\ CurrentEntry.status = "estimated") =>
        \A h \in DOMAIN prediction.predictions :
            LET p == PatternValue(Rat(CurrentEntry.fused_value, 100), h)
            IN  /\ prediction.predictions[h].value =
                       Round2(RMax(RInt(0),
                                   RAdd(p, RMul(Rat(variations[h], 10), p))))
                /\ prediction.predictions[h].uncertainty =
                       Round2(RMul(Rat(CurrentEntry.uncertainty, 100),
                                   Rat(100 + 5 * h, 100)))

----------------------------------------------------------------------------
(* get_fused_air_quality_data for a list of pollutants, step by step *)

\* the longest pollutant list of a request
MaxPollutants == 2

\* the pollutants of the lists: two that TEMPO observes and one it does not
ListedPollutants == {"NO2", "O3", "PM2.5"}

\* the keys of a dict, in insertion order: the first occurrences of a list
RECURSIVE DictKeys(_)
DictKeys(names) ==
    IF names = <<>> THEN <<>>
    ELSE LET rest == DictKeys(SubSeq(names, 1, Len(names) - 1))
             last == names[Len(names)]
         IN  IF \E i \in 1..Len(rest) : rest[i] = last THEN rest
             ELSE Append(rest, last)

\* lines 128-134: one TEMPO call is submitted for every element of the
\* list that TEMPO observes; its future goes under the key tempo_<pollutant>
RECURSIVE TempoCalls(_)
TempoCalls(pollutants) ==
    IF pollutants = <<>> THEN <<>>
    ELSE (IF Head(pollutants) \in TempoPollutants
          THEN <<(<<"tempo", Head(pollutants)>>)>> ELSE <<>>)
         \o TempoCalls(Tail(pollutants))

\* lines 128-148: the calls submitted to the executor, in order, each named
\* by the key its future is stored under
SubmittedCalls(pollutants) ==
    TempoCalls(pollutants) \o <<(<<"ground">>), (<<"weather">>)>>

\* the futures dict after line 147: a key submitted again keeps its place
\* and holds the future of the last call
FutureKeys(pollutants) == DictKeys(SubmittedCalls(pollutants))

\* the call whose future a key holds
HeldCall(pollutants, key) ==
    LET calls == SubmittedCalls(pollutants)
    IN  CHOOSE i \in 1..Len(calls) :
            /\ calls[i] = key
            /\ \A j \in (i + 1)..Len(calls) : calls[j] # key

\* how the call behind a key ended; outcomes.tempo is indexed by the
\* TEMPO calls in submission order
KeyOutcome(pollutants, outcomes, key) ==
    CASE key[1] = "tempo" -> outcomes.tempo[HeldCall(pollutants, key)]
      [] key[1] = "ground" -> outcomes.ground
      [] key[1] = "weather" -> outcomes.weather

\* lines 150-176 over futures.items(): the dict of TEMPO results holds the
\* pollutants whose wait returned; the counters follow the keys
CollectSourcesOfList(pollutants, outcomes) ==
    LET keys == FutureKeys(pollutants)
        Collects(o) == o.status \notin {"exception", "timeout"}
        collected ==
            {i \in 1..Len(keys) : Collects(KeyOutcome(pollutants, outcomes, keys[i]))}
        tempo == {keys[i][2] : i \in {j \in collected : keys[j][1] = "tempo"}}
    IN  [tempo_satellite |->
             [p \in tempo |-> KeyOutcome(pollutants, outcomes, <<"tempo", p>>)],
         ground_sensors |-> Slot(outcomes.ground),
         weather_context |-> Slot(outcomes.weather),
         summary |->
             [sources_attempted |-> Len(SubmittedCalls(pollutants)),
              sources_successful |->
                  Cardinality({i \in collected :
                      KeyOutcome(pollutants, outcomes, keys[i]).status = "success"}),
              data_points_collected |->
                  SumSeq([i \in 1..Len(keys) |->
                      RInt(DataPoints(keys[i][1],
                               Slot(KeyOutcome(pollutants, outcomes, keys[i]))))]).n]]

\* line 188: data_sources['tempo_satellite'].get(pollutant); the rest of
\* data_sources is handed on as it is
SourcesOf(pollutant, sources) ==
    [sources EXCEPT
        !.tempo_satellite =
            IF pollutant \in DOMAIN sources.tempo_satellite
            THEN sources.tempo_satellite[pollutant] ELSE Absent]

\* lines 76-89: fused_results[pollutant] is assigned
Assign(fused_results, pollutant, entry) ==
    [q \in DOMAIN fused_results \cup {pollutant} |->
        IF q = pollutant THEN entry ELSE fused_results[q]]

RECURSIVE SumScores(_, _)
SumScores(fused_results, S) ==
    IF S = {} THEN 0
    ELSE LET p == CHOOSE q \in S : TRUE
         IN  fused_results[p].data_quality.score
             + SumScores(fused_results, S \ {p})

\* _generate_fusion_summary over the dict of entries; overall_quality in 1/100
GenerateFusionSummaryOfList(sources, fused_results) ==
    LET successful ==
            {p \in DOMAIN fused_results : fused_results[p].status = "success"}
    IN  [successful_pollutants |-> Cardinality(successful),
         total_pollutants |-> Cardinality(DOMAIN fused_results),
         overall_quality |->
             IF successful = {} THEN 0
             ELSE Round2(Rat(SumScores(fused_results, successful),
                             100 * Cardinality(successful))),
         data_source_summary |-> sources.summary]

\* lines 94-103: the result of a call whose outer try ran to its end
FusedResult(sources, fused_results) ==
    LET fusion_summary == GenerateFusionSummaryOfList(sources, fused_results)
    IN  [status |-> "success",
         method |-> "satellite_ground_fusion",
         pollutants |-> fused_results,
         fusion_summary |-> fusion_summary,
         data_sources |-> sources.summary,
         quality_score |-> fusion_summary.overall_quality]

\* TEMPO answers with a column of its own for each pollutant
TempoAnswers(pollutant) ==
    {Timeout,
     [status |-> "success",
      data |-> [value |-> IF pollutant = "NO2" THEN 30 ELSE 60,
                pos |-> 0, fresh |-> TRUE]]}

\* the ground network answers for all pollutants at once
GroundAnswers ==
    {Exception}
    \cup {[status |-> "success", data |-> d] :
             d \in {<<>>,
                    <<NearStation("NO2")>>,
                    <<RimStation("NO2"), NearStation("PM2.5")>>,
                    <<NearStation("O3"), NearStation("NO2")>>,
                    <<NearStation("PM2.5"), RimStation("PM2.5")>>}}

WeatherAnswers ==
    {Failed,
     [status |-> "success", data |-> [wind_speed |-> 4, pbl_height |-> 1200]]}

PollutantLists == SeqsUpTo(ListedPollutants, MaxPollutants)

\* how the calls of a list end: the TEMPO calls one by one, in submission
\* order
AnswersOf(pollutants) ==
    [tempo : {t \in [1..Len(TempoCalls(pollutants)) ->
                        UNION {TempoAnswers(p) : p \in ListedPollutants}] :
                 \A i \in DOMAIN t : t[i] \in TempoAnswers(TempoCalls(pollutants)[i][2])},
     ground : GroundAnswers,
     weather : WeatherAnswers]

\* the dict fused_results of line 74 and the position of the loop of line 76
NoneFused == [next |-> 1, fused_results |-> [p \in {} |-> Pending]]

InitPollutantList ==
    /\ \E pollutants \in PollutantLists :
          request = [op |-> "fuse_list", pollutants |-> pollutants, radius_km |-> 50]
    /\ providers \in AnswersOf(request.pollutants)
    /\ data_sources = NothingCollected
    /\ noise = 0
    /\ fused = Pending
    /\ EntryPointsIdle
    /\ baseline = NoBaseline
    /\ OthersIdle

\* line 71: _collect_multi_source_data submits the calls and collects the
\* results; tasks records the calls submitted
CollectSources ==
    /\ tasks = NotCalled
    /\ tasks' = SubmittedCalls(request.pollutants)
    /\ data_sources' = CollectSourcesOfList(request.pollutants, providers)
    /\ fused' = NoneFused
    /\ UNCHANGED <<request, noise, providers, clock, fault, variations,
                   current_data, prediction, baseline, assessment, http,
                   collector, cache>>

\* the element of the list that the loop of line 76 stands at
CurrentPollutant == request.pollutants[fused.next]

\* lines 76-89: one pass of the loop; the pollutant is fused from
\* data_sources, or its fusion raises and the error entry is stored
FuseNextPollutant ==
    /\ tasks # NotCalled
    /\ current_data = Pending
    /\ fused.next <= Len(request.pollutants)
    /\ \E sources \in {SourcesOf(CurrentPollutant, data_sources)} :
       \E z \in (IF CollectMeasurements(CurrentPollutant, sources,
                                        request.radius_km) = <<>>
                 THEN NoiseDraws ELSE {0}) :
       \E fused_data \in {FusePollutantData(CurrentPollutant, sources,
                                            request.radius_km, z)} :
          /\ noise' = z
          /\ fused' = [next |-> fused.next + 1,
                       fused_results |->
                           Assign(fused.fused_results, CurrentPollutant,
                                  PollutantEntry(CurrentPollutant, fused_data))]
    /\ UNCHANGED <<request, data_sources, providers, clock, fault, variations,
                   current_data, prediction, baseline, assessment, http,
                   tasks, collector, cache>>

\* lines 91-103: the loop is over; the summary is built and the call returns
ReturnFused ==
    /\ tasks # NotCalled
    /\ current_data = Pending
    /\ fused.next > Len(request.pollutants)
    /\ current_data' = FusedResult(data_sources, fused.fused_results)
    /\ UNCHANGED <<request, data_sources, noise, fused, providers, clock,
                   fault, variations, prediction, baseline, assessment, http,
                   tasks, collector, cache>>

NextPollutantList == CollectSources \/ FuseNextPollutant \/ ReturnFused

SpecPollutantList == InitPollutantList /\ [][NextPollutantList]_vars

----------------------------------------------------------------------------
(* A pollutant whose fusion fails *)

\* the call for the list has returned
ListAnswered == request.op = "fuse_list" /\ current_data # Pending

Requested == {request.pollutants[i] : i \in 1..Len(request.pollutants)}

\* what the fusion of a requested pollutant comes to on the collected
\* data, the estimator's draw aside
OwnFusion(p) ==
    FusePollutantData(p, SourcesOf(p, data_sources), request.radius_km, 0)

\* C22: when the fusion of a requested pollutant raises, that pollutant's
\* entry, and no other, is the error entry with the pollutant's fallback
\* value; every other requested pollutant has the entry fused from its own
\* measurements (or the estimator's entry when it has none), and the
\* result has status 'success'.
C22_FailureStaysWithItsPollutant ==
    ListAnswered =>
        /\ current_data.status = "success"
        /\ DOMAIN current_data.pollutants = Requested
        /\ \A p \in Requested :
              LET entry == current_data.pollutants[p]
              IN  CASE OwnFusion(p).status = "raised" ->
                          /\ entry.status = "error"
                          /\ entry.message = OwnFusion(p).error
                          /\ entry.fallback_value = GetFallbackValue(p)
                    [] OwnFusion(p).status = "success" -> entry = OwnFusion(p)
                    [] OTHER -> entry.status = "estimated"

\* a list of two pollutants is answered: the fusion of one raised and the
\* other was fused from a measurement
C22_Witness ==
    /\ ListAnswered
    /\ \E p, q \in Requested :
          /\ OwnFusion(p).status = "raised"
          /\ current_data.pollutants[p].status = "error"
          /\ current_data.pollutants[q].status = "success"
          /\ current_data.pollutants[q].contributing_sources.total_measurements > 0

----------------------------------------------------------------------------
(* The order in which the provider calls end *)

\* what the collector was given: the end of each call, with a call whose
\* wait ran past its 30 s taken as timed out
Given ==
    [f \in ProviderNames |->
        IF f \in collector.timed_out THEN Timeout ELSE providers[f]]

\* C23: the data and the counters (attempted, successful, data points) that
\* the collection returns are those of the calls' results taken in
\* submission order, whatever the order in which the calls ended.
C23_CompletionOrderIrrelevant ==
    CollectorDone =>
        data_sources = CollectMultiSourceData(request.pollutant, Given)

\* three calls that ended in the reverse of their submission order, each
\* with a result that was collected
C23_Witness ==
    /\ CollectorDone
    /\ collector.finished = <<"weather", "ground", "tempo">>
    /\ collector.timed_out = {}
    /\ data_sources.summary.sources_successful = 3
    /\ data_sources.summary.data_points_collected = 4

----------------------------------------------------------------------------
(* The calls that a collection issues *)

\* the collection of the list request has run
ListCollected == request.op = "fuse_list" /\ tasks # NotCalled

\* how many of the submitted calls went to a key
CallsTo(key) == Cardinality({i \in 1..Len(tasks) : tasks[i] = key})

\* the result slots that the collection can fill: one per requested
\* pollutant that TEMPO observes, the ground slot and the weather slot
ResultSlots ==
    {<<"tempo", p>> : p \in Requested \cap TempoPollutants}
    \cup {<<"ground">>, <<"weather">>}

\* C24: for every requested list the collector issues exactly one
\* satellite call for each requested pollutant among NO2, O3, HCHO and
\* AEROSOL and none for any other pollutant, exactly one ground-network
\* call and exactly one weather call, and sources_attempted is the number
\* of result slots that can be filled.
C24_OneCallPerSlot ==
    ListCollected =>
        /\ \A p \in Requested :
              CallsTo(<<"tempo", p>>) = IF p \in TempoPollutants THEN 1 ELSE 0
        /\ CallsTo(<<"ground">>) = 1
        /\ CallsTo(<<"weather">>) = 1
        /\ data_sources.summary.sources_attempted = Cardinality(ResultSlots)

----------------------------------------------------------------------------
(* What the entry of a pollutant depends on *)

\* the provider data of one pollutant alone: its own satellite result,
\* the ground measurements tagged with it, and the weather context
OwnData(p) ==
    LET key == <<"tempo", p>>
        ground == Slot(providers.ground)
    IN  [tempo_satellite |->
             IF p \in TempoPollutants
             THEN Slot(KeyOutcome(request.pollutants, providers, key))
             ELSE Absent,
         ground_sensors |->
             IF ground.status = "success"
             THEN [ground EXCEPT
                      !.data = SelectSeq(@, LAMBDA m : m.pollutant = p)]
             ELSE ground,
         weather_context |-> Slot(providers.weather)]

\* the entry that the pollutant's own data gives; the draw z of the
\* estimator matters to an estimated entry only
OwnEntry(p, z) ==
    PollutantEntry(p, FusePollutantData(p, OwnData(p), request.radius_km, z))

\* C25: the entry of every pollutant fused so far is the one that the
\* pollutant's own satellite result, the ground measurements tagged with
\* it and the weather context give, whatever else the list requests and
\* in whatever order; and the collected source data is, after each fusion,
\* still what the collection returned.
C25_EntryFromOwnDataOnly ==
    ListCollected =>
        /\ data_sources = CollectSourcesOfList(request.pollutants, providers)
        /\ \A p \in DOMAIN fused.fused_results :
              \/ fused.fused_results[p] = OwnEntry(p, 0)
              \/ /\ OwnEntry(p, 0).status = "estimated"
                 /\ \E z \in NoiseDraws : fused.fused_results[p] = OwnEntry(p, z)

\* two pollutants were fused in turn, each from a measurement of its own,
\* with the ground network answering for both
C25_Witness ==
    /\ ListCollected
    /\ fused.next = 3
    /\ Cardinality(Requested) = 2
    /\ data_sources.ground_sensors.status = "success"
    /\ \A p \in Requested :
          /\ \E i \in 1..Len(data_sources.ground_sensors.data) :
                data_sources.ground_sensors.data[i].pollutant = p
          /\ fused.fused_results[p].status = "success"

----------------------------------------------------------------------------
(* The weight of a measurement *)

\* C26: every measurement that the fusion of a pollutant builds, from the
\* satellite or from a ground station at any distance >= 0 within or
\* beyond the radius, carries a weight between 0 and 1.
C26_WeightWithinUnitInterval ==
    \A i \in 1..Len(Measurements) :
        /\ RLeq(RInt(0), Measurements[i].weight)
        /\ RLeq(Measurements[i].weight, RInt(1))

\* a fusion of three measurements: the satellite's, one of a station at the
\* target (weight 1) and one of a station beyond the radius (weight 0)
C26_Witness ==
    /\ Done
    /\ Len(Measurements) = 3
    /\ \E i, j, k \in 1..3 :
          /\ Measurements[i].source = "tempo_satellite"
          /\ Measurements[j].source = "ground_sensor"
          /\ Measurements[j].distance_km = 0
          /\ Measurements[j].weight = RInt(1)
          /\ Measurements[k].distance_km >= request.radius_km
          /\ Measurements[k].weight = RInt(0)

----------------------------------------------------------------------------
(* _analyze_trend on its own *)

\* most points of an analysed sequence
MaxPoints == 3

\* forecast values in cents: steps of exactly 0.5, of just more and of
\* just less
TrendValueSet == {949, 1000, 1050, 1051, 1100}

InitTrend ==
    /\ request \in {[op |-> "trend", predictions |-> ps] :
                       ps \in SeqsUpTo(TrendValueSet, MaxPoints)}
    /\ data_sources = NothingCollected
    /\ providers = ProvidersOf(data_sources)
    /\ noise = 0
    /\ fused = Pending
    /\ EntryPointsIdle
    /\ baseline = NoBaseline
    /\ OthersIdle

\* _analyze_trend(predictions) is called and returns
AnalyzeTrendCall ==
    /\ prediction = Pending
    /\ prediction' = [status |-> "analyzed",
                      trend |-> AnalyzeTrend(request.predictions)]
    /\ UNCHANGED <<request, data_sources, noise, fused, providers, clock,
                   fault, variations, current_data, baseline, assessment,
                   http, tasks, collector, cache>>

NextTrend == AnalyzeTrendCall

SpecTrend == InitTrend /\ [][NextTrend]_vars

\* the least-squares slope of value against hour index, as the ratio of
\* the centred sums: sum (x - mx)(y - my) / sum (x - mx)^2
LeastSquaresSlope(ys) ==
    LET n == Len(ys)
        mx == Rat(n - 1, 2)
        my == Rat(SumInts(ys), 100 * n)
        dx(i) == RSub(RInt(i - 1), mx)
        dy(i) == RSub(Rat(ys[i], 100), my)
    IN  RDiv(SumSeq([i \in 1..n |-> RMul(dx(i), dy(i))]),
             SumSeq([i \in 1..n |-> RMul(dx(i), dx(i))]))

TrendAnalyzed == prediction # Pending /\ prediction.status = "analyzed"

\* C27: the trend of a sequence is 'increasing' exactly when its
\* least-squares slope is above 0.5, 'decreasing' exactly when it is below
\* -0.5 and 'stable' otherwise; a sequence of fewer than two points is
\* 'stable'.
C27_TrendFollowsSlope ==
    TrendAnalyzed =>
        LET ys == request.predictions
        IN  IF Len(ys) < 2 THEN prediction.trend = "stable"
            ELSE /\ prediction.trend = "increasing"
                        <=> RLess(Rat(1, 2), LeastSquaresSlope(ys))
                 /\ prediction.trend = "decreasing"
                        <=> RLess(LeastSquaresSlope(ys), Rat(-1, 2))
                 /\ prediction.trend \in {"increasing", "decreasing", "stable"}

\* three points rising by exactly 0.5 an hour were analysed: the slope is
\* 0.5 and the trend 'stable'
C27_Witness ==
    /\ TrendAnalyzed
    /\ request.predictions = <<1000, 1050, 1100>>
    /\ LeastSquaresSlope(request.predictions) = Rat(1, 2)
    /\ prediction.trend = "stable"

----------------------------------------------------------------------------
(* The @cached layer around get_fused_air_quality_data
   (Backend/app/services/cache_service.py) *)

\* most calls of a behaviour
MaxCalls == 3

\* _generate_key: prefix, the positional arguments and the keyword
\* arguments sorted by name, each through str() and joined with ':'.  A part
\* is modelled by the value it is the string of: str() of a list keeps its
\* elements in their order.  Key data longer than 200 characters goes
\* through md5, taken as free of collisions.
GenerateKey(prefix, args, kwargs) ==
    [prefix |-> prefix, args |-> args, kwargs |-> kwargs]

\* lines 234-236 in the wrapper of get_fused_air_quality_data: args holds
\* self and the arguments passed by position, kwargs those passed by name
CacheKey(call) ==
    GenerateKey("data_fusion:get_fused_air_quality_data",
                IF call.style = "positional"
                THEN <<"self", call.lat, call.lon, call.pollutants, call.radius_km>>
                ELSE <<"self", call.lat, call.lon, call.pollutants>>,
                IF call.style = "positional" THEN <<>>
                ELSE <<(<<"radius_km", call.radius_km>>)>>)

\* json.dumps(value, default=str) and json.loads: the stored text is not
\* the value; the value read back has the fields, numbers, strings and
\* lists of the value written
JsonDumps(value) == [json |-> value]
JsonLoads(text) == text.json

None == [status |-> "None"]

\* CacheService.get without its read: nothing is ever found
CacheGetNothing(service, key) == None

\* CacheService.get
CacheGet(service, key) ==
    IF ~service.is_connected THEN None
    ELSE IF key \notin DOMAIN service.store THEN None
    ELSE JsonLoads(service.store[key])

\* CacheService.set: setex(key, ttl, serialized_value)
CacheSet(service, key, value) ==
    IF ~service.is_connected THEN service.store
    ELSE [k \in DOMAIN service.store \cup {key} |->
             IF k = key THEN JsonDumps(value) ELSE service.store[k]]

\* fused_results after the first n passes of the loop of lines 76-89
RECURSIVE FuseAll(_, _, _, _, _)
FuseAll(pollutants, sources, radius_km, zs, n) ==
    IF n = 0 THEN NoneFused.fused_results
    ELSE Assign(FuseAll(pollutants, sources, radius_km, zs, n - 1),
                pollutants[n],
                PollutantEntry(pollutants[n],
                    FusePollutantData(pollutants[n],
                                      SourcesOf(pollutants[n], sources),
                                      radius_km, zs[n])))

\* get_fused_air_quality_data(lat, lon, pollutants, radius_km) in one step
GetFusedAirQualityDataOfList(pollutants, outcomes, radius_km, zs) ==
    LET sources == CollectSourcesOfList(pollutants, outcomes)
    IN  FusedResult(sources,
                    FuseAll(pollutants, sources, radius_km, zs, Len(pollutants)))

\* the estimator's draws of a call: one for each pollutant left without a
\* measurement
DrawsOfList(pollutants, outcomes, radius_km) ==
    LET sources == CollectSourcesOfList(pollutants, outcomes)
    IN  {zs \in [1..Len(pollutants) -> NoiseDraws] :
            \A i \in 1..Len(pollutants) :
                CollectMeasurements(pollutants[i],
                                    SourcesOf(pollutants[i], sources),
                                    radius_km) # <<>> => zs[i] = 0}

\* the calls made: the /fused-data route passes the radius by position
\* (routes/data_fusion.py line 76), get_enhanced_prediction by name
\* (enhanced_prediction_service.py line 47)
CallForms ==
    {[lat |-> 40, lon |-> -74, pollutants |-> ps, radius_km |-> 50,
      style |-> "positional"] :
        ps \in {<<"NO2", "PM2.5">>, <<"PM2.5", "NO2">>, <<"NO2">>}}
    \cup {[lat |-> 40, lon |-> -74, pollutants |-> <<"NO2">>,
           radius_km |-> 50, style |-> "keyword"]}

\* what the providers answer at the time of a call: clean air seen by the
\* satellite and a near station, or a station at the rim alone
CacheAnswers ==
    {[tempo |-> <<[status |-> "success",
                   data |-> [value |-> 30, pos |-> 0, fresh |-> TRUE]]>>,
      ground |-> [status |-> "success",
                  data |-> <<NearStation("NO2"), NearStation("PM2.5")>>],
      weather |-> [status |-> "success",
                   data |-> [wind_speed |-> 4, pbl_height |-> 1200]]],
     [tempo |-> <<Failed>>,
      ground |-> [status |-> "success",
                  data |-> <<RimStation("NO2"), RimStation("PM2.5")>>],
      weather |-> Failed]}

InitCache ==
    /\ request = [op |-> "cached_fuse", seq |-> 0]
    /\ cache \in {[is_connected |-> c, store |-> [k \in {} |-> None],
                   log |-> "none"] : c \in BOOLEAN}
    /\ collector = [runs |-> 0]
    /\ tasks = NotCalled
    /\ data_sources = NothingCollected
    /\ providers = ProvidersOf(data_sources)
    /\ noise = 0
    /\ fused = Pending
    /\ EntryPointsIdle
    /\ baseline = NoBaseline
    /\ assessment = NotCalled
    /\ http = NotCalled

\* the wrapped function runs: collection, fusion and summary
RunFusion(call, answers, zs) ==
    /\ providers' = answers
    /\ tasks' = SubmittedCalls(call.pollutants)
    /\ data_sources' = CollectSourcesOfList(call.pollutants, answers)
    /\ collector' = [collector EXCEPT !.runs = @ + 1]
    /\ current_data' =
           GetFusedAirQualityDataOfList(call.pollutants, answers,
                                        call.radius_km, zs)

NextCall(call) ==
    /\ request.seq < MaxCalls
    /\ request' = [op |-> "cached_fuse", seq |-> request.seq + 1,
                   lat |-> call.lat, lon |-> call.lon,
                   pollutants |-> call.pollutants,
                   radius_km |-> call.radius_km, style |-> call.style]

\* lines 231-232: the cache is not connected and the function is called
CacheBypass ==
    /\ ~cache.is_connected
    /\ \E call \in CallForms, answers \in CacheAnswers :
       \E zs \in DrawsOfList(call.pollutants, answers, call.radius_km) :
          /\ NextCall(call)
          /\ RunFusion(call, answers, zs)
    /\ UNCHANGED <<noise, fused, clock, fault, variations, prediction,
                   baseline, assessment, http, cache>>

\* lines 234-243: the key is found and its value is returned
CacheHit ==
    /\ cache.is_connected
    /\ \E call \in CallForms :
          /\ CacheGet(cache, CacheKey(call)) # None
          /\ NextCall(call)
          /\ current_data' = CacheGet(cache, CacheKey(call))
    /\ cache' = [cache EXCEPT !.log = "hit"]
    /\ UNCHANGED <<data_sources, noise, fused, providers, clock, fault,
                   variations, prediction, baseline, assessment, http,
                   tasks, collector>>

\* lines 234-250: the key is not found; the function is called and its
\* result stored with the ttl
CacheMiss ==
    /\ cache.is_connected
    /\ \E call \in CallForms, answers \in CacheAnswers :
       \E zs \in DrawsOfList(call.pollutants, answers, call.radius_km) :
          /\ CacheGet(cache, CacheKey(call)) = None
          /\ NextCall(call)
          /\ RunFusion(call, answers, zs)
          /\ cache' = [cache EXCEPT
                          !.store = CacheSet(cache, CacheKey(call), current_data'),
                          !.log = "miss"]
    /\ UNCHANGED <<noise, fused, clock, fault, variations, prediction,
                   baseline, assessment, http>>

\* the ttl of an entry (600 s) runs out and Redis drops the entry
EntryExpires ==
    /\ \E key \in DOMAIN cache.store :
          cache' = [cache EXCEPT
                       !.store = [k \in DOMAIN cache.store \ {key} |->
                                     cache.store[k]]]
    /\ UNCHANGED <<request, data_sources, noise, fused, providers, clock,
                   fault, variations, current_data, prediction, baseline,
                   assessment, http, tasks, collector>>

NextCache == CacheBypass \/ CacheHit \/ CacheMiss \/ EntryExpires

SpecCache == InitCache /\ [][NextCache]_vars

----------------------------------------------------------------------------
(* The key of a cached fuse result *)

\* what a key was generated for: lat, lon, the set of the pollutants and
\* the radius, and how the radius was passed
QueryOf(key) ==
    [lat |-> key.args[2], lon |-> key.args[3],
     pollutants |-> {key.args[4][i] : i \in 1..Len(key.args[4])},
     radius_km |-> IF Len(key.args) = 5 THEN key.args[5] ELSE key.kwargs[1][2],
     by_name |-> key.kwargs # <<>>]

\* C28: fused results are cached by (lat, lon, pollutant set, radius): two
\* calls with the same lat, lon and radius whose lists hold the same
\* pollutants in a different order use the same cache entry, so the cache
\* never holds two entries for them.
C28_OneEntryPerPollutantSet ==
    cache # NotCalled =>
        \A k1, k2 \in DOMAIN cache.store :
            QueryOf(k1) = QueryOf(k2) => k1 = k2

----------------------------------------------------------------------------
(* Hits and misses *)

\* the step is a call of the wrapped get_fused_air_quality_data
FuseCalled == request'.seq = request.seq + 1

\* the key of the call that a step makes
CalledKey == CacheKey(request')

----------------------------------------------------------------------------
(* The lowest quality of a fused pollutant *)

\* C30: a pollutant fused from a non-empty measurement list has a quality
\* score of at least 0.25 and one of the levels excellent, good, fair and
\* poor; no entry that the fusion returns has the level very_poor or
\* no_data.
C30_QualityAtLeastPoor ==
    /\ Fused =>
          /\ Measurements # <<>>
          /\ fused.data_quality.score >= 25
          /\ fused.data_quality.level \in {"excellent", "good", "fair", "poor"}
    /\ (Done /\ fused.status # "raised") =>
          fused.data_quality.level \notin {"very_poor", "no_data"}

\* the lowest case: one satellite measurement older than an hour, fused
\* with score 0.25 and level poor
C30_Witness ==
    /\ Fused
    /\ Len(Measurements) = 1
    /\ Measurements[1].source = "tempo_satellite"
    /\ ~Measurements[1].fresh
    /\ fused.data_quality.score = 25
    /\ fused.data_quality.level = "poor"

====
